---- MODULE Spec2Model ----
(***************************************************************************)
(* A model of the in-memory state stores of the ChatKit sample backends:   *)
(*   - CatState / CatStore (cat-lounge): entity operations, the lock-      *)
(*     guarded keyed store, and the two naming request handlers;           *)
(*   - AirlineStateManager (customer-support): per-thread profiles.        *)
(* Python strings that the code inspects character by character (strip,    *)
(* upper, title, isdigit, isalpha) are sequences of one-character strings. *)
(***************************************************************************)
EXTENDS Integers, Sequences, FiniteSets, TLC

(***************************************************************************)
(* Bounds of the model.                                                    *)
(***************************************************************************)
\* the logical clock (datetime.now) advances at most this far
MaxClock == 1
\* feed/play/clean are called with amounts in -MaxAmount..MaxAmount
MaxAmount == 3
\* concurrent callers of one CatStore
NumProcs == 2
\* store calls started in one behaviour of Spec
MaxCalls == 2
\* naming requests started in one behaviour of SpecNaming
MaxRequests == 2
\* AirlineStateManager calls that change a profile in one behaviour of SpecAirline
MaxAirOps == 2

(***************************************************************************)
(* Python values and strings.                                              *)
(***************************************************************************)
\* Python's None where the other values of the field are strings
None == "None"

Max(a, b) == IF a >= b THEN a ELSE b
Min(a, b) == IF a <= b THEN a ELSE b

LowerLetters ==
  <<"a","b","c","d","e","f","g","h","i","j","k","l","m",
    "n","o","p","q","r","s","t","u","v","w","x","y","z">>
UpperLetters ==
  <<"A","B","C","D","E","F","G","H","I","J","K","L","M",
    "N","O","P","Q","R","S","T","U","V","W","X","Y","Z">>
Digits == {"0","1","2","3","4","5","6","7","8","9"}
Whitespace == {" "}

LowerSet == {LowerLetters[i] : i \in DOMAIN LowerLetters}
UpperSet == {UpperLetters[i] : i \in DOMAIN UpperLetters}
ToUpper == [c \in LowerSet |-> UpperLetters[CHOOSE i \in DOMAIN LowerLetters : LowerLetters[i] = c]]
ToLower == [c \in UpperSet |-> LowerLetters[CHOOSE i \in DOMAIN UpperLetters : UpperLetters[i] = c]]
IsLetter(c) == c \in LowerSet \/ c \in UpperSet
UpperChar(c) == IF c \in LowerSet THEN ToUpper[c] ELSE c
LowerChar(c) == IF c \in UpperSet THEN ToLower[c] ELSE c

\* str.upper()
StrUpper(s) == [i \in DOMAIN s |-> UpperChar(s[i])]
\* str.strip(): drop leading and trailing whitespace
RECURSIVE LStrip(_)
LStrip(s) == IF s # <<>> /\ Head(s) \in Whitespace THEN LStrip(Tail(s)) ELSE s
RECURSIVE RStrip(_)
RStrip(s) ==
  IF s # <<>> /\ s[Len(s)] \in Whitespace THEN RStrip(SubSeq(s, 1, Len(s) - 1)) ELSE s
StrStrip(s) == RStrip(LStrip(s))
\* str.title(): a letter is upper-cased unless the character before it is a letter
StrTitle(s) ==
  [i \in DOMAIN s |->
     IF ~IsLetter(s[i]) THEN s[i]
     ELSE IF i > 1 /\ IsLetter(s[i - 1]) THEN LowerChar(s[i]) ELSE UpperChar(s[i])]
\* str.isdigit(), str.isalpha(): non-empty and every character in the class
StrIsDigit(s) == s # <<>> /\ \A i \in DOMAIN s : s[i] \in Digits
StrIsAlpha(s) == s # <<>> /\ \A i \in DOMAIN s : IsLetter(s[i])

(***************************************************************************)
(* cat_state.py: the CatState entity and its operations.  An operation     *)
(* takes the entity, its arguments, the outcome of random.choice and the   *)
(* clock reading, and gives the entity after the call.                     *)
(***************************************************************************)
STATUS_MIN == 0
STATUS_MAX == 10
COLOR_PATTERNS == {"black", "calico", "colorpoint", "tabby", "white"}
UNNAMED == <<"U","n","n","a","m","e","d"," ","C","a","t">>
DEFAULT_STAT == 6
DEFAULT_AGE == 2
AGE_MIN == 1
AGE_MAX == 15
FEED_AMOUNT == 3
PLAY_BOOST == 2
CLEAN_BOOST == 3

\* _clamp with the upper limit missing
ClampNoMax(value) == Max(STATUS_MIN, value)

_clamp(value) == Max(STATUS_MIN, Min(STATUS_MAX, value))

\* CatState(): the dataclass defaults; updated_at is read from the clock
NewCatState(t) ==
  [name |-> UNNAMED, energy |-> DEFAULT_STAT, happiness |-> DEFAULT_STAT,
   cleanliness |-> DEFAULT_STAT, age |-> DEFAULT_AGE, color_pattern |-> None,
   updated_at |-> t]

touch(s, t) == [s EXCEPT !.updated_at = t]

\* feed that leaves happiness alone
FeedNoHappiness(s, amount, coin, t) ==
  touch([s EXCEPT !.energy = _clamp(@ + amount),
                  !.cleanliness = IF coin THEN _clamp(@ - 1) ELSE @], t)

feed(s, amount, coin, t) ==
  touch([s EXCEPT !.energy = _clamp(@ + amount),
                  !.happiness = _clamp(@ + 1),
                  !.cleanliness = IF coin THEN _clamp(@ - 1) ELSE @], t)

play(s, boost, coin, t) ==
  touch([s EXCEPT !.happiness = _clamp(@ + boost),
                  !.energy = _clamp(@ - 1),
                  !.cleanliness = IF coin THEN _clamp(@ - 1) ELSE @], t)

clean(s, boost, coin, t) ==
  touch([s EXCEPT !.cleanliness = _clamp(@ + boost),
                  !.happiness = IF coin THEN _clamp(@ - 1) ELSE @], t)

\* `not self.color_pattern`: None and the empty string are falsy
NoPattern(s) == s.color_pattern = None \/ s.color_pattern = ""

\* rename that draws a new pattern on every call
RenameRedraw(s, value, pattern, t) ==
  touch([s EXCEPT !.name = value, !.color_pattern = pattern], t)

\* pattern is the outcome of choice(COLOR_PATTERNS)
rename(s, value, pattern, t) ==
  touch([s EXCEPT !.name = value,
                  !.color_pattern = IF NoPattern(s) THEN pattern ELSE @], t)

\* A Python value passed as `value` to set_age: its type and, for a number,
\* its numeric value (a str argument carries the number it spells).
PyInt(n) == [type |-> "int", v |-> n]
PyNone == [type |-> "NoneType", v |-> 0]
PyStr(n) == [type |-> "str", v |-> n]
\* truthiness: None is falsy, a number is falsy when zero, a non-empty str is truthy
Truthy(value) ==
  CASE value.type = "NoneType" -> FALSE
    [] value.type = "int" -> value.v # 0
    [] OTHER -> TRUE

\* set_age that stores the number as it comes
SetAgeNoClamp(s, value, t) ==
  IF Truthy(value) /\ value.type = "int"
  THEN touch([s EXCEPT !.age = value.v], t)
  ELSE s

set_age(s, value, t) ==
  IF Truthy(value) /\ value.type = "int"
  THEN touch([s EXCEPT !.age = Min(Max(value.v, AGE_MIN), AGE_MAX)], t)
  ELSE s

\* clone(): dataclasses.replace(self) builds a new object with the same field values
clone(s) == s

to_payload(s) ==
  [name |-> s.name, energy |-> s.energy, happiness |-> s.happiness,
   cleanliness |-> s.cleanliness, age |-> s.age, colorPattern |-> s.color_pattern,
   updatedAt |-> s.updated_at]

(***************************************************************************)
(* State.                                                                  *)
(***************************************************************************)
VARIABLES
  now,        \* the clock read by datetime.now / datetime.utcnow
  cat,        \* one CatState object driven directly through its methods
  \* -- CatStore and its callers ------------------------------------------
  heap,       \* the CatState objects: reference -> field values, or Free
  states,     \* CatStore._states: thread id -> reference, NoRef when absent
  lock,       \* CatStore._lock: the caller holding it, NoProc when unlocked
  pc,         \* where each caller is inside load / mutate
  call,       \* the call each caller is running: op, thread id, mutator
  local,      \* the `state` reference _ensure returned to the caller
  pending,    \* the field values a running mutator has computed
  result,     \* the snapshot reference the last call returned to the caller
  raised,     \* whether the caller's last call ended in an exception
  lastLoaded, \* per thread id: what the last load returned, NoVal once mutated since
  written,    \* per thread id: whether a mutator has written the entity
  ncalls,     \* store calls started so far
  \* -- cat-lounge naming requests (one per caller at a time) ------------
  req,        \* the request a caller is handling: kind, thread id, name argument
  hpc,        \* where the caller is inside the request handler
  outcome,    \* how the caller's last request ended
  events,     \* events the caller's current request has emitted
  title,      \* ChatKit thread title per thread id: the name it was built from
  hidden,     \* names recorded in <CAT_NAME_SELECTED> hidden context items, per thread
  nreqs,      \* naming requests started so far
  \* -- AirlineStateManager ------------------------------------------------
  profiles,   \* AirlineStateManager._states: thread id -> CustomerProfile, NoProfile when absent
  airLast,    \* the last manager call: operation, thread, profile before it, outcome
  airChecks,  \* for the last change_seat: whether its seat and flight arguments were accepted
  airCount,   \* manager calls and caller edits that changed a profile so far
  \* -- ChatKit servers: action dispatch --------------------------------
  threadItems,\* items the handlers added with store.add_thread_item, per server
  actLast,    \* the last action dispatched: server, thread, type, payload, sender, events, exception
  ndisp,      \* actions dispatched so far
  \* -- weather.py ---------------------------------------------------------
  weather,    \* the weather lookup in progress or just ended: where it is, how it ended
  \* -- tool calls and handlers running as tasks of the event loop ---------
  tasks,      \* add_checked_bag / get_profile calls: each caller's position, and calls returned per thread
  selects,    \* flight.select handlers in flight: each caller's position and what it has done
  \* -- the other stores -----------------------------------------------------
  assets,     \* AdAssetStore: _assets and _order
  facts,      \* FactStore: _facts and _order
  ad,         \* AdCreativeServer: stored thread metadata, the respond run, the image attempts
  metro,      \* MetroMapStore: the map's lines and stations, the id lookup
  pager       \* MemoryStore: the rows, and the paging in progress

catVars == <<cat>>
reqVars == <<req, hpc, outcome, events, title, hidden, nreqs>>
airVars == <<profiles, airLast, airChecks, airCount>>
storeVars ==
  <<heap, states, lock, pc, call, local, pending, result, raised, lastLoaded, written,
    ncalls>>
appVars == <<tasks, selects, assets, facts, ad, metro, pager>>
srvVars == <<threadItems, actLast, ndisp, weather, appVars>>
\* everything but the variables of appVars
coreVars == <<now, cat, storeVars, reqVars, airVars, threadItems, actLast, ndisp, weather>>
vars == <<now, cat, storeVars, reqVars, airVars, srvVars>>

Procs == 1..NumProcs
Keys == {"thr_a", "thr_b"}
\* a reference per stored entity and per snapshot a caller can hold
Refs == 1..(Cardinality(Keys) + NumProcs)
\* `None` from dict.get: the key has no entity
NoRef == 0
\* the lock is not held
NoProc == 0
Free == [free |-> TRUE]
NoVal == [none |-> TRUE]
NoCall == [op |-> "none", key |-> "none", mut |-> [kind |-> "none", value |-> <<>>]]
NoRequest == [kind |-> "none", thread |-> "none", name |-> <<>>]
NoProfile == [none |-> TRUE]
NoChecks == [seat_valid |-> TRUE, flight_found |-> TRUE]
NoAirCall == [op |-> "none", thread |-> "none", before |-> NoProfile, outcome |-> "none"]
Servers == {"customer-support", "cat-lounge", "metro-map", "news-guide"}
\* a payload: a dict (its keys and values), None, or a value that is no dict
Dict(fields) == [shape |-> "dict", fields |-> fields]
EmptyDict == Dict([k \in {} |-> None])
PayloadNone == [shape |-> "None"]
PayloadList == [shape |-> "list"]
NoDispatch ==
  [server |-> "none", thread |-> "none", type |-> "none", payload |-> PayloadNone,
   sender |-> <<None>>, events |-> <<>>, raised |-> "none"]

\* no weather lookup has been made
NoLookup ==
  [pc |-> "idle", tool |-> FALSE, unit |-> "", called |-> <<>>, last_error |-> "",
   raised |-> "none", message |-> ""]

\* no tool call is scheduled and none has returned
NoTasks ==
  [pos |-> [p \in Procs |-> "idle"], op |-> [p \in Procs |-> "none"],
   thread |-> [p \in Procs |-> "none"], returned |-> [t \in Keys |-> 0],
   overlapped |-> FALSE]
NoSelects ==
  [pos |-> [p \in Procs |-> "idle"], leg |-> [p \in Procs |-> <<>>],
   events |-> [p \in Procs |-> 0], consumed |-> [p \in Procs |-> FALSE],
   started |-> 0, bookings |-> 0]
NoAsset == [id |-> "", content |-> "", images |-> <<>>]
AssetIds == {"asset_1", "asset_2", "custom"}
NoAssets ==
  [stored |-> [k \in AssetIds |-> NoAsset], order |-> <<>>, count |-> 0,
   last |-> [op |-> "none", asset_id |-> "None", given |-> FALSE, content |-> "",
             result |-> "None"]]
NoFact == [id |-> "", text |-> "", status |-> "", created_at |-> 0]
FactIds == {"fact_1", "fact_2", "fact_3"}
NoFacts ==
  [stored |-> [k \in FactIds |-> NoFact], order |-> <<>>, count |-> 0,
   last |-> [op |-> "none", fact_id |-> "None", result |-> "None"]]
\* thread metadata without any of the keys the tools and respond use
NoMetadata == [latest_asset_id |-> "None", pending_images |-> <<>>, previous_response_id |-> "None"]
NoGeneration ==
  [pos |-> "none", attempt |-> 0, calls |-> 0, failed |-> 0, status |-> "none", image |-> ""]
NoAd ==
  [pc |-> "idle", thread |-> NoMetadata, local |-> NoMetadata, stored |-> NoMetadata,
   turns |-> 0, ntools |-> 0, gen |-> NoGeneration, saved |-> "None"]
\* Station and Line of the metro map: the fields add_station reads or writes
Station(id, name, x, y, lines) == [id |-> id, name |-> name, x |-> x, y |-> y, lines |-> lines]
Line(id, orientation, stations) == [id |-> id, orientation |-> orientation, stations |-> stations]
StationA == <<"a">>
StationB == <<"b">>
RedLine == <<"r","e","d">>
GreenLine == <<"g","r","e","e","n">>
BlueLine == <<"b","l","u","e">>
\* a map of two stations on two lines
ReferenceMap ==
  [stations |-> <<Station(StationA, <<"A">>, 0, 0, <<RedLine>>),
                  Station(StationB, <<"B">>, 1, 0, <<RedLine, GreenLine>>)>>,
   lines |-> <<Line(RedLine, "horizontal", <<StationA, StationB>>),
               Line(GreenLine, "vertical", <<StationB>>)>>]
\* the same map with a third line that has no station yet
MapWithEmptyLine ==
  [ReferenceMap EXCEPT !.lines = Append(@, Line(BlueLine, "horizontal", <<>>))]
\* a map a client posted in which two stations share an id
MapWithSharedId ==
  [ReferenceMap EXCEPT !.stations = Append(@, Station(StationA, <<"A","2">>, 5, 5, <<GreenLine>>))]
\* the lookups __post_init__ and set_map build: id -> the object in the
\* map's list (its index); of two rows with one id the later one stays
LookupOf(rows) ==
  [id \in {rows[i].id : i \in DOMAIN rows} |->
     CHOOSE i \in DOMAIN rows : rows[i].id = id /\ \A j \in DOMAIN rows : rows[j].id = id => j <= i]
NoAddStation == [op |-> "none", raised |-> "none", station_name |-> <<>>, line_id |-> <<>>, append |-> TRUE, station_id |-> <<>>]
MetroStoreOf(map) == [map |-> map, station_lookup |-> LookupOf(map.stations), line_lookup |-> LookupOf(map.lines)]
NoMetro == [store |-> MetroStoreOf(ReferenceMap), adds |-> 0, last |-> NoAddStation]
\* the store's rows of one thread and a client paging through them: the
\* arguments it keeps passing, the cursor and has_more of the last page,
\* and the rows of all pages so far
NoPager == [rows |-> <<>>, pos |-> "idle", limit |-> 1, order |-> "asc", after |-> None, has_more |-> FALSE, data |-> <<>>, seen |-> <<>>]

\* time passes
Tick ==
  /\ now < MaxClock
  /\ now' = now + 1
  /\ UNCHANGED <<cat, storeVars, reqVars, airVars, srvVars>>

InitClock == now = 0
InitCatObject == cat = NewCatState(0)
InitStore ==
  /\ heap = [r \in Refs |-> Free]
  /\ states = [k \in Keys |-> NoRef]
  /\ lock = NoProc
  /\ pc = [p \in Procs |-> "idle"]
  /\ call = [p \in Procs |-> NoCall]
  /\ local = [p \in Procs |-> NoRef]
  /\ pending = [p \in Procs |-> NoVal]
  /\ result = [p \in Procs |-> NoRef]
  /\ raised = [p \in Procs |-> FALSE]
  /\ lastLoaded = [k \in Keys |-> NoVal]
  /\ written = [k \in Keys |-> FALSE]
  /\ ncalls = 0
InitRequests ==
  /\ req = [p \in Procs |-> NoRequest]
  /\ hpc = [p \in Procs |-> "none"]
  /\ outcome = [p \in Procs |-> "none"]
  /\ events = [p \in Procs |-> 0]
  /\ title = [k \in Keys |-> <<>>]
  /\ hidden = [k \in Keys |-> <<>>]
  /\ nreqs = 0
InitAirline ==
  /\ profiles = [t \in Keys |-> NoProfile]
  /\ airLast = NoAirCall
  /\ airChecks = NoChecks
  /\ airCount = 0
InitServers ==
  /\ threadItems = [srv \in Servers |-> <<>>]
  /\ actLast = NoDispatch
  /\ ndisp = 0
  /\ weather = NoLookup
  /\ tasks = NoTasks
  /\ selects = NoSelects
  /\ assets = NoAssets
  /\ facts = NoFacts
  /\ ad = NoAd
  /\ metro = NoMetro
  /\ pager = NoPager

(***************************************************************************)
(* SpecCat: every sequence of method calls on one CatState object.         *)
(***************************************************************************)
Amounts == (0 - MaxAmount)..MaxAmount
Coins == {TRUE, FALSE}
RenameInputs == {<<"T","o","m">>, <<"K","i","t">>}
AgeInputs == {PyNone, PyInt(0), PyStr(7), PyInt(22)}

InitCat == InitClock /\ InitCatObject /\ InitStore /\ InitRequests /\ InitAirline /\ InitServers

FeedWith(amount, coin) == cat' = feed(cat, amount, coin, now) /\ UNCHANGED <<now, storeVars, reqVars, airVars, srvVars>>
PlayWith(boost, coin) == cat' = play(cat, boost, coin, now) /\ UNCHANGED <<now, storeVars, reqVars, airVars, srvVars>>
CleanWith(boost, coin) == cat' = clean(cat, boost, coin, now) /\ UNCHANGED <<now, storeVars, reqVars, airVars, srvVars>>
RenameWith(value, pattern) == cat' = rename(cat, value, pattern, now) /\ UNCHANGED <<now, storeVars, reqVars, airVars, srvVars>>

Feed == \E amount \in Amounts, coin \in Coins : FeedWith(amount, coin)
Play == \E boost \in Amounts, coin \in Coins : PlayWith(boost, coin)
Clean == \E boost \in Amounts, coin \in Coins : CleanWith(boost, coin)
Rename == \E value \in RenameInputs, pattern \in COLOR_PATTERNS : RenameWith(value, pattern)
SetAge == \E value \in AgeInputs : cat' = set_age(cat, value, now) /\ UNCHANGED <<now, storeVars, reqVars, airVars, srvVars>>

NextCat == Feed \/ Play \/ Clean \/ Rename \/ SetAge \/ Tick

SpecCat == InitCat /\ [][NextCat]_vars

(***************************************************************************)
(* Claims about CatState, checked under SpecCat.                           *)
(***************************************************************************)
StatsInRange ==
  /\ cat.energy \in STATUS_MIN..STATUS_MAX
  /\ cat.happiness \in STATUS_MIN..STATUS_MAX
  /\ cat.cleanliness \in STATUS_MIN..STATUS_MAX

SaturatedStays ==
  /\ (cat.energy = STATUS_MAX /\ \E coin \in Coins : FeedWith(3, coin))
       => cat'.energy = STATUS_MAX
  /\ (cat.happiness = STATUS_MAX /\ \E coin \in Coins : PlayWith(3, coin))
       => cat'.happiness = STATUS_MAX
  /\ (cat.cleanliness = STATUS_MAX /\ \E coin \in Coins : CleanWith(3, coin))
       => cat'.cleanliness = STATUS_MAX

\* C4: under every sequence of feed, play and clean calls with any amount,
\* energy, happiness and cleanliness stay within [0, 10], and a stat that is
\* 10 is still 10 after the call that increases it by 3.
C4_StatsClamped == []StatsInRange /\ [][SaturatedStays]_vars

\* all three stats have been driven to the upper limit
C4_Witness ==
  /\ cat.energy = STATUS_MAX
  /\ cat.happiness = STATUS_MAX
  /\ cat.cleanliness = STATUS_MAX

\* C5 (as claimed): once the cat has a name other than "Unnamed Cat", a
\* further rename call changes neither name nor color_pattern.
C5_SecondRenameNoOp ==
  [][(cat.name # UNNAMED /\ Rename)
       => (cat'.name = cat.name /\ cat'.color_pattern = cat.color_pattern)]_vars

ColorAssignedOnce ==
  /\ cat.color_pattern # None => cat'.color_pattern = cat.color_pattern
  /\ (cat.color_pattern = None /\ cat'.color_pattern # None) => Rename
  /\ (cat.color_pattern = None /\ Rename) => cat'.color_pattern \in COLOR_PATTERNS

\* C7: color_pattern is None (and the payload's colorPattern is None) until
\* the first rename, the first rename sets it to one of COLOR_PATTERNS, and
\* no operation changes it afterwards.
C7_ColorPatternOnce ==
  /\ cat.color_pattern = None
  /\ [](/\ cat.color_pattern \in COLOR_PATTERNS \cup {None}
        /\ to_payload(cat).colorPattern = cat.color_pattern)
  /\ [][ColorAssignedOnce]_vars

\* a cat that was named and then fed, aged and renamed keeps its pattern
C7_Witness ==
  /\ cat.color_pattern = "tabby"
  /\ cat.name = <<"K","i","t">>
  /\ cat.age = AGE_MAX
  /\ cat.energy = STATUS_MAX

FreshStats ==
  /\ cat.energy = DEFAULT_STAT
  /\ cat.happiness = DEFAULT_STAT
  /\ cat.cleanliness = DEFAULT_STAT

\* C9: one feed() of a cat at energy 6, happiness 6, cleanliness 6 gives
\* energy 9 and happiness 7; cleanliness is 5 when the random choice is
\* True and 6 when it is False.
C9_FreshFeed ==
  [][FreshStats =>
       /\ FeedWith(FEED_AMOUNT, TRUE)
            => cat'.energy = 9 /\ cat'.happiness = 7 /\ cat'.cleanliness = 5
       /\ FeedWith(FEED_AMOUNT, FALSE)
            => cat'.energy = 9 /\ cat'.happiness = 7 /\ cat'.cleanliness = 6]_vars

\* the default cat after one feed() whose random choice was True
C9_Witness ==
  cat = [NewCatState(cat.updated_at) EXCEPT !.energy = 9, !.happiness = 7,
                                            !.cleanliness = 5]

(***************************************************************************)
(* cat_store.py: CatStore.  A caller runs load or mutate one statement at  *)
(* a time: acquire the lock, _ensure, (mutate only) run the mutator, clone,*)
(* release.  A mutator reads the entity and then writes it back, so an     *)
(* update is lost unless the lock keeps a second caller out in between.    *)
(***************************************************************************)
Mutator(kind, value) == [kind |-> kind, value |-> value]
NoMutator == Mutator("none", <<>>)
\* the mutators callers pass to mutate in Spec: s.feed() and a function that raises
StoreMutators == {Mutator("feed", <<>>), Mutator("raise", <<>>)}
StoreCalls ==
  {[op |-> "load", key |-> k, mut |-> NoMutator] : k \in Keys}
    \cup {[op |-> "mutate", key |-> k, mut |-> m] : k \in Keys, m \in StoreMutators}

\* the entity after mutator(state), given the random outcomes and the clock
ApplyMutator(s, m, coin, pattern, t) ==
  CASE m.kind = "feed" -> feed(s, FEED_AMOUNT, coin, t)
    [] m.kind = "rename" -> rename(s, m.value, pattern, t)
    [] m.kind = "incr" -> [s EXCEPT !.energy = @ + 1]
    [] m.kind = "set_age" -> set_age(s, m.value, t)
    [] OTHER -> s

\* references something still points to once caller p lets go of its snapshot
LiveRefs(p) ==
  {states[k] : k \in Keys} \cup {local[q] : q \in Procs}
    \cup {result[q] : q \in Procs \ {p}}
\* the heap after caller p drops the snapshot it held (an unreferenced
\* object is collected)
Dropped(p) ==
  IF result[p] # NoRef /\ result[p] \notin LiveRefs(p)
  THEN [heap EXCEPT ![result[p]] = Free]
  ELSE heap
\* a reference handed out again although an object lives there
ReusedRef == CHOOSE r \in Refs : \A q \in Refs : r <= q
\* a reference for a new object
FreshRef == CHOOSE r \in Refs : heap[r] = Free /\ \A q \in Refs : heap[q] = Free => r <= q

\* a caller enters load(c.key) or mutate(c.key, c.mut)
Start(p, c) ==
  /\ pc[p] \in {"idle", "done"}
  /\ call' = [call EXCEPT ![p] = c]
  /\ pc' = [pc EXCEPT ![p] = "acquire"]
  /\ heap' = Dropped(p)
  /\ result' = [result EXCEPT ![p] = NoRef]
  /\ raised' = [raised EXCEPT ![p] = FALSE]
  /\ ncalls' = ncalls + 1
  /\ UNCHANGED <<now, cat, airVars, srvVars, states, lock, local, pending, lastLoaded, written>>

\* acquire that does not look at the lock
AcquireUnguarded(p) == TRUE

\* `async with self._lock` lets the caller in when the lock is not held
CanAcquire(p) == lock = NoProc

Acquire(p) ==
  /\ pc[p] = "acquire"
  /\ CanAcquire(p)
  /\ lock' = p
  /\ pc' = [pc EXCEPT ![p] = "ensure"]
  /\ UNCHANGED <<now, cat, reqVars, airVars, srvVars, heap, states, call, local, pending, result, raised,
                 lastLoaded, written, ncalls>>

\* _ensure that builds a new CatState on every call
EnsureAlwaysCreates(thread_id) == TRUE

\* _ensure: `state is None` after self._states.get(thread_id)
EnsureCreates(thread_id) == states[thread_id] = NoRef

Ensure(p) ==
  /\ pc[p] = "ensure"
  /\ LET k == call[p].key IN
       IF EnsureCreates(k)
       THEN /\ heap' = [heap EXCEPT ![FreshRef] = NewCatState(now)]
            /\ states' = [states EXCEPT ![k] = FreshRef]
            /\ local' = [local EXCEPT ![p] = FreshRef]
       ELSE /\ local' = [local EXCEPT ![p] = states[k]]
            /\ UNCHANGED <<heap, states>>
  /\ pc' = [pc EXCEPT ![p] = IF call[p].op = "load" THEN "clone" ELSE "mutate"]
  /\ UNCHANGED <<now, cat, reqVars, airVars, srvVars, lock, call, pending, result, raised, lastLoaded, written, ncalls>>

\* mutator(state) starts: it reads the entity, or raises
MutatorRead(p) ==
  /\ pc[p] = "mutate"
  /\ IF call[p].mut.kind = "raise"
     THEN /\ raised' = [raised EXCEPT ![p] = TRUE]
          /\ pc' = [pc EXCEPT ![p] = "release"]
          /\ UNCHANGED pending
     ELSE /\ \E coin \in Coins, pattern \in COLOR_PATTERNS :
               pending' = [pending EXCEPT
                             ![p] = ApplyMutator(heap[local[p]], call[p].mut, coin, pattern, now)]
          /\ pc' = [pc EXCEPT ![p] = "write"]
          /\ UNCHANGED raised
  /\ UNCHANGED <<now, cat, reqVars, airVars, srvVars, heap, states, lock, call, local, result, lastLoaded, written, ncalls>>

\* mutator(state) finishes: it stores the fields it computed
MutatorWrite(p) ==
  /\ pc[p] = "write"
  /\ heap' = [heap EXCEPT ![local[p]] = pending[p]]
  /\ pending' = [pending EXCEPT ![p] = NoVal]
  /\ lastLoaded' = [lastLoaded EXCEPT ![call[p].key] = NoVal]
  /\ written' = [written EXCEPT ![call[p].key] = TRUE]
  /\ pc' = [pc EXCEPT ![p] = "clone"]
  /\ UNCHANGED <<now, cat, reqVars, airVars, srvVars, states, lock, call, local, result, raised, ncalls>>

\* clone that hands out the stored object itself
CloneAlias(src) == src

\* the reference state.clone() returns: a new object
CloneRef(src) == FreshRef

Clone(p) ==
  /\ pc[p] = "clone"
  /\ LET r == CloneRef(local[p]) IN
       /\ heap' = [heap EXCEPT ![r] = clone(heap[local[p]])]
       /\ result' = [result EXCEPT ![p] = r]
  /\ pc' = [pc EXCEPT ![p] = "release"]
  /\ UNCHANGED <<now, cat, reqVars, airVars, srvVars, states, lock, call, local, pending, raised, lastLoaded,
                 written, ncalls>>

\* leaving the locked block without releasing when the mutator raised
ReleaseUnlessRaised(p) ==
  /\ pc[p] = "release"
  /\ lock' = IF raised[p] THEN lock ELSE NoProc
  /\ local' = [local EXCEPT ![p] = NoRef]
  /\ lastLoaded' =
       IF call[p].op = "load"
       THEN [lastLoaded EXCEPT ![call[p].key] = heap[result[p]]]
       ELSE lastLoaded
  /\ pc' = [pc EXCEPT ![p] = "done"]
  /\ UNCHANGED <<now, cat, reqVars, airVars, srvVars, heap, states, call, pending, result, raised, written, ncalls>>

\* leaving `async with`: the lock is released, the call returns or re-raises
Release(p) ==
  /\ pc[p] = "release"
  /\ lock' = NoProc
  /\ local' = [local EXCEPT ![p] = NoRef]
  /\ lastLoaded' =
       IF call[p].op = "load"
       THEN [lastLoaded EXCEPT ![call[p].key] = heap[result[p]]]
       ELSE lastLoaded
  /\ pc' = [pc EXCEPT ![p] = "done"]
  /\ UNCHANGED <<now, cat, reqVars, airVars, srvVars, heap, states, call, pending, result, raised, written, ncalls>>

\* what a caller does to the snapshot it was handed: it overwrites the fields
Tampered(s) ==
  [s EXCEPT !.name = <<"X">>, !.energy = STATUS_MIN, !.happiness = STATUS_MIN,
            !.cleanliness = STATUS_MIN, !.age = AGE_MAX, !.color_pattern = "tabby",
            !.updated_at = 0 - 1]

\* the caller changes the fields of the snapshot its last call returned
Tamper(p) ==
  /\ pc[p] = "done"
  /\ result[p] # NoRef
  /\ heap[result[p]] # Tampered(heap[result[p]])
  /\ heap' = [heap EXCEPT ![result[p]] = Tampered(@)]
  /\ UNCHANGED <<now, cat, reqVars, airVars, srvVars, states, lock, pc, call, local, pending, result, raised,
                 lastLoaded, written, ncalls>>

StoreStep(p) ==
  \/ Acquire(p)
  \/ Ensure(p)
  \/ MutatorRead(p)
  \/ MutatorWrite(p)
  \/ Clone(p)
  \/ Release(p)

(***************************************************************************)
(* Spec: callers issuing any load and mutate calls on one CatStore.        *)
(***************************************************************************)
Init == InitClock /\ InitCatObject /\ InitStore /\ InitRequests /\ InitAirline /\ InitServers

\* callers are interchangeable: caller p + 1 makes its first call after caller p
\* has made one
InOrder(p) == \A q \in Procs : q < p => pc[q] # "idle"

StartCall(p) ==
  /\ \E c \in StoreCalls : ncalls < MaxCalls /\ InOrder(p) /\ Start(p, c)
  /\ UNCHANGED reqVars

Next == Tick \/ \E p \in Procs : StartCall(p) \/ StoreStep(p) \/ Tamper(p)

Spec == Init /\ [][Next]_vars

(***************************************************************************)
(* SpecIncr: every caller makes one mutate call on the same thread id with *)
(* a mutator that adds 1 to energy, all of them in flight together.        *)
(***************************************************************************)
IncrKey == "thr_a"
IncrCall == [op |-> "mutate", key |-> IncrKey, mut |-> Mutator("incr", <<>>)]

StartIncr(p) == pc[p] = "idle" /\ Start(p, IncrCall) /\ UNCHANGED reqVars

NextIncr == Tick \/ \E p \in Procs : StartIncr(p) \/ StoreStep(p)

SpecIncr == Init /\ [][NextIncr]_vars

(***************************************************************************)
(* Claims about CatStore.                                                  *)
(***************************************************************************)
\* what load(k) would return for every thread id the store holds
StoreView == [k \in Keys |-> IF states[k] = NoRef THEN NoVal ELSE heap[states[k]]]

LoadsAgree ==
  \A p \in Procs :
    (pc[p] = "release" /\ call[p].op = "load" /\ lastLoaded[call[p].key] # NoVal)
      => heap[result[p]] = lastLoaded[call[p].key]

TamperIsolated == (\E p \in Procs : Tamper(p)) => StoreView' = StoreView

\* C1: a load returns the same field values as the previous load of that
\* thread id when no mutate ran in between, and a caller changing the
\* fields of a snapshot it was handed changes no stored entity.
C1_SnapshotIsolation == []LoadsAgree /\ [][TamperIsolated]_vars

\* a caller scribbled over its snapshot and another caller's load of the
\* same thread id is returning
C1_Witness ==
  \E p, q \in Procs :
    /\ p # q
    /\ pc[p] = "done" /\ result[p] # NoRef /\ heap[result[p]].name = <<"X">>
    /\ pc[q] = "release" /\ call[q].op = "load" /\ call[q].key = call[p].key
    /\ lastLoaded[call[q].key] # NoVal

\* callers whose increment has been written
Incremented == {p \in Procs : pc[p] \in {"clone", "release", "done"}}

\* C2: with N callers each running mutate(key, add 1 to energy) concurrently,
\* energy is the initial value plus the number of increments written so far,
\* and initial + N once all have returned.
C2_NoLostUpdate ==
  /\ states[IncrKey] # NoRef
       => heap[states[IncrKey]].energy = DEFAULT_STAT + Cardinality(Incremented)
  /\ (\A p \in Procs : pc[p] = "done")
       => (states[IncrKey] # NoRef
             /\ heap[states[IncrKey]].energy = DEFAULT_STAT + NumProcs)

\* all N calls have returned
C2_Witness == \A p \in Procs : pc[p] = "done" /\ call[p] = IncrCall

InCriticalSection(p) == pc[p] \in {"ensure", "mutate", "write", "clone", "release"}

\* C3: at most one caller is between acquiring and releasing the lock,
\* whatever the thread ids, and a caller copying an entity never does so
\* while another caller's mutator has read it and not yet written it back.
C3_Serialized ==
  /\ \A p, q \in Procs : (InCriticalSection(p) /\ InCriticalSection(q)) => p = q
  /\ \A p \in Procs : InCriticalSection(p) => lock = p
  /\ \A p, q \in Procs : (pc[p] = "clone" /\ p # q) => pending[q] = NoVal

\* one caller is inside a mutation while a call on another thread id waits
C3_Witness ==
  \E p, q \in Procs :
    /\ pc[p] = "write" /\ pc[q] = "acquire"
    /\ call[p].key # call[q].key

DefaultFields(s) == s = NewCatState(s.updated_at)

LoadReturnsDefault ==
  \A p \in Procs :
    (pc[p] = "release" /\ call[p].op = "load") =>
      LET k == call[p].key
          snap == heap[result[p]]
      IN /\ ~raised[p]
         /\ ~written[k] => (DefaultFields(snap) /\ snap.updated_at <= now)
         /\ lastLoaded[k] # NoVal => snap.updated_at = lastLoaded[k].updated_at

CreatedOnce == \A k \in Keys : states[k] # NoRef => states'[k] = states[k]

\* C8: load of a thread id the store has not seen returns the default
\* entity; a later load with no mutate in between returns the same
\* updated_at, and the entity stored for a thread id is never replaced.
C8_AutoCreate == []LoadReturnsDefault /\ [][CreatedOnce]_vars

\* a second load of an unmutated thread id returns after the clock has moved
C8_Witness ==
  \E p \in Procs :
    /\ pc[p] = "release" /\ call[p].op = "load"
    /\ lastLoaded[call[p].key] # NoVal
    /\ heap[result[p]].updated_at < now

\* a caller outside the locked block of load / mutate
Outside(p) == pc[p] \in {"idle", "acquire", "done"}

\* C14: when the mutator passed to mutate raises, the call ends with the
\* exception and returns nothing, and the lock is free again: a caller that
\* is outside the locked block never holds the lock, so the next load or
\* mutate, on any key, gets in.  A call whose mutator does not raise never
\* ends with an exception, also when the key had no entity, and returns a
\* snapshot.
C14_RaiseReleasesLock ==
  \A p \in Procs :
    /\ Outside(p) => lock # p
    /\ (pc[p] = "done" /\ call[p].mut.kind = "raise") => (raised[p] /\ result[p] = NoRef)
    /\ (pc[p] = "done" /\ call[p].mut.kind # "raise") => (~raised[p] /\ result[p] # NoRef)

\* caller 1's mutate ended with the mutator's exception, and caller 2 got
\* the lock afterwards for a mutate on the same key and is about to return
C14_Witness ==
  /\ pc[1] = "done" /\ raised[1] /\ call[1].mut.kind = "raise"
  /\ lock = 2 /\ pc[2] = "release"
  /\ call[2].op = "mutate" /\ call[2].key = call[1].key
  /\ ~raised[2] /\ result[2] # NoRef

(***************************************************************************)
(* SpecAge: the show_cat_profile tool, which passes set_age to             *)
(* CatStore.mutate, called again and again on caller 1.                    *)
(***************************************************************************)
\* the `age` arguments: None, a str, zero, and numbers below, inside and above 1..15
AgeValues ==
  {PyNone, PyStr(7), PyInt(0), PyInt(0 - 3), PyInt(1), PyInt(7), PyInt(15), PyInt(16),
   PyInt(22)}

\* show_cat_profile up to `await _update_state(ctx, mutate)`
ShowCatProfile ==
  \E k \in Keys, age \in AgeValues :
    /\ ncalls < MaxCalls
    /\ Start(1, [op |-> "mutate", key |-> k, mut |-> Mutator("set_age", age)])
    /\ UNCHANGED reqVars

NextAge == Tick \/ ShowCatProfile \/ StoreStep(1)

SpecAge == Init /\ [][NextAge]_vars

\* the age the claim expects for an int argument
ExpectedAge(n) == IF n < 1 THEN 1 ELSE IF n > 15 THEN 15 ELSE n
\* an int other than zero
StoresAge(value) == value.type = "int" /\ value.v # 0

\* C17: the age of every CatState, stored or returned, is within 1..15; on
\* any of them set_age with a non-zero int gives that int clamped to 1..15,
\* and set_age with None, zero or a non-int leaves age and updated_at as they
\* were; the snapshot show_cat_profile builds its widget from carries the
\* clamped age.
C17_AgeClamped ==
  /\ \A r \in Refs :
       heap[r] # Free =>
         /\ heap[r].age \in 1..15
         /\ \A value \in AgeValues :
              LET after == set_age(heap[r], value, now) IN
                IF StoresAge(value)
                THEN after.age = ExpectedAge(value.v)
                ELSE after.age = heap[r].age /\ after.updated_at = heap[r].updated_at
  /\ (pc[1] = "done" /\ call[1].mut.kind = "set_age" /\ StoresAge(call[1].mut.value)) =>
       /\ heap[result[1]].age = ExpectedAge(call[1].mut.value.v)
       /\ heap[states[call[1].key]].age = ExpectedAge(call[1].mut.value.v)

\* show_cat_profile has returned with age 22 clamped to 15 and stamped at
\* clock 1, as the second call on the store
C17_Witness ==
  /\ pc[1] = "done" /\ call[1].mut = Mutator("set_age", PyInt(22))
  /\ heap[result[1]].age = 15
  /\ lastLoaded[call[1].key] = NoVal /\ written[call[1].key]
  /\ ncalls = 2
  /\ heap[result[1]].updated_at = 1

(***************************************************************************)
(* cat-lounge server.py / cat_agent.py: the two ways a cat gets its name.  *)
(* A request runs on a caller of the CatStore: it loads the cat, looks at  *)
(* the name in the snapshot, and then calls mutate with rename.            *)
(***************************************************************************)
\* payload["name"] / the tool's `name` argument
NameInputs == {<<" ","t","o","m">>, <<"k","i","t">>, <<" ">>}

Request(kind, k, name) == [kind |-> kind, thread |-> k, name |-> name]
LoadCall(k) == [op |-> "load", key |-> k, mut |-> NoMutator]
RenameCall(k, name) == [op |-> "mutate", key |-> k, mut |-> Mutator("rename", name)]

\* the handler returns with `n` more events and outcome `how`
Finish(p, how, n) ==
  /\ hpc' = [hpc EXCEPT ![p] = "finished"]
  /\ outcome' = [outcome EXCEPT ![p] = how]
  /\ events' = [events EXCEPT ![p] = @ + n]

CanBegin(p) ==
  /\ hpc[p] \in {"none", "finished"}
  /\ pc[p] \in {"idle", "done"}
  /\ nreqs < MaxRequests
  /\ InOrder(p)

\* _handle_select_name_action up to `await self.cat_store.load(thread.id)`
BeginSelectName(p, k, raw, hasSender) ==
  /\ CanBegin(p)
  /\ nreqs' = nreqs + 1
  /\ LET name == StrStrip(raw) IN
       /\ req' = [req EXCEPT ![p] = Request("select_name", k, name)]
       /\ IF name = <<>> \/ ~hasSender
          THEN /\ hpc' = [hpc EXCEPT ![p] = "finished"]
               /\ outcome' = [outcome EXCEPT ![p] = "ignored"]
               /\ events' = [events EXCEPT ![p] = 0]
               /\ UNCHANGED <<now, cat, airVars, srvVars, storeVars>>
          ELSE /\ hpc' = [hpc EXCEPT ![p] = "loading"]
               /\ outcome' = [outcome EXCEPT ![p] = "none"]
               /\ events' = [events EXCEPT ![p] = 0]
               /\ Start(p, LoadCall(k))
  /\ UNCHANGED <<title, hidden>>

\* set_cat_name up to `await _get_state(ctx)`
BeginSetCatName(p, k, raw) ==
  /\ CanBegin(p)
  /\ nreqs' = nreqs + 1
  /\ req' = [req EXCEPT ![p] = Request("set_cat_name", k, raw)]
  /\ hpc' = [hpc EXCEPT ![p] = "loading"]
  /\ outcome' = [outcome EXCEPT ![p] = "none"]
  /\ events' = [events EXCEPT ![p] = 0]
  /\ Start(p, LoadCall(k))
  /\ UNCHANGED <<title, hidden>>

\* `current_state.name != "Unnamed Cat"` on the snapshot load returned
AlreadyNamed(snapshot) == snapshot.name # UNNAMED

\* _handle_select_name_action from the load's return to `await self.cat_store.mutate`:
\* the widget is replaced; a named cat gets the "already has a name" message
SelectNameChecked(p) ==
  /\ hpc[p] = "loading" /\ pc[p] = "done" /\ req[p].kind = "select_name"
  /\ IF AlreadyNamed(heap[result[p]])
     THEN /\ Finish(p, "rejected", 2)
          /\ UNCHANGED <<now, cat, airVars, srvVars, storeVars>>
     ELSE /\ hpc' = [hpc EXCEPT ![p] = "renaming"]
          /\ events' = [events EXCEPT ![p] = @ + 1]
          /\ Start(p, RenameCall(req[p].thread, req[p].name))
          /\ UNCHANGED outcome
  /\ UNCHANGED <<req, title, hidden, nreqs>>

\* set_cat_name from the load's return to `await _update_state`: a named cat
\* gets the "is ready to play!" message, an empty name raises ValueError
SetCatNameChecked(p) ==
  /\ hpc[p] = "loading" /\ pc[p] = "done" /\ req[p].kind = "set_cat_name"
  /\ LET cleaned == StrTitle(StrStrip(req[p].name)) IN
       IF AlreadyNamed(heap[result[p]])
       THEN /\ Finish(p, "rejected", 1)
            /\ UNCHANGED <<now, cat, airVars, srvVars, storeVars>>
       ELSE IF cleaned = <<>>
       THEN /\ Finish(p, "error", 0)
            /\ UNCHANGED <<now, cat, airVars, srvVars, storeVars>>
       ELSE /\ hpc' = [hpc EXCEPT ![p] = "renaming"]
            /\ Start(p, RenameCall(req[p].thread, cleaned))
            /\ UNCHANGED <<outcome, events>>
  /\ UNCHANGED <<req, title, hidden, nreqs>>

\* after mutate returns, in both handlers: the thread title is built from
\* state.name and saved, a <CAT_NAME_SELECTED> hidden item is added, and one
\* event (the assistant message / the update_cat_status effect) is emitted
Renamed(p) ==
  /\ hpc[p] = "renaming" /\ pc[p] = "done"
  /\ LET state == heap[result[p]]
         k == req[p].thread
     IN /\ title' = [title EXCEPT ![k] = state.name]
        /\ hidden' = [hidden EXCEPT ![k] = Append(@, state.name)]
  /\ Finish(p, "named", 1)
  /\ UNCHANGED <<now, cat, airVars, srvVars, storeVars, req, nreqs>>

BeginRequest(p) ==
  \/ \E k \in Keys, raw \in NameInputs, hasSender \in BOOLEAN :
       BeginSelectName(p, k, raw, hasSender)
  \/ \E k \in Keys, raw \in NameInputs : BeginSetCatName(p, k, raw)

NextNaming ==
  \E p \in Procs :
    \/ BeginRequest(p)
    \/ SelectNameChecked(p)
    \/ SetCatNameChecked(p)
    \/ Renamed(p)
    \/ StoreStep(p)

SpecNaming == Init /\ [][NextNaming]_vars

(***************************************************************************)
(* Claims about naming.                                                    *)
(***************************************************************************)
Named(k) == states[k] # NoRef /\ heap[states[k]].name # UNNAMED

NameOneWay ==
  \A k \in Keys :
    Named(k) => (states'[k] # NoRef /\ heap'[states'[k]].name = heap[states[k]].name)

OneWinner ==
  \A p, q \in Procs :
    (outcome[p] = "named" /\ outcome[q] = "named" /\ req[p].thread = req[q].thread)
      => p = q

\* C6 (as claimed): once a thread's cat has a name other than "Unnamed Cat"
\* no naming request changes it, and of two naming requests in flight for
\* one unnamed cat only one ends with the cat named by it.
C6_NamingOneWay == []OneWinner /\ [][NameOneWay]_vars

(***************************************************************************)
(* customer-support airline_state.py: AirlineStateManager.  The methods    *)
(* are synchronous, so each call is one step.  A profile carries the       *)
(* fields the calls read or write; a timeline entry is its kind, the fixed *)
(* text of its message and the values formatted into it.  Every Python str *)
(* that is data is a sequence of characters.                               *)
(***************************************************************************)
FlightSegment(flight_number, date, origin, destination, departure_time, arrival_time, seat) ==
  [flight_number |-> flight_number, date |-> date, origin |-> origin,
   destination |-> destination, departure_time |-> departure_time,
   arrival_time |-> arrival_time, seat |-> seat, status |-> "Scheduled"]

OA476 == <<"O","A","4","7","6">>
OA477 == <<"O","A","4","7","7">>
SFO == <<"S","F","O">>
JFK == <<"J","F","K">>

TimelineEntry(kind, text, values) == [kind |-> kind, entry |-> text, values |-> values]

\* None where the value is a str otherwise
NoStr == <<None>>

\* a log that puts the entry after the entries already there
LogAtEnd(profile, kind, text, values) ==
  [profile EXCEPT !.timeline = Append(@, TimelineEntry(kind, text, values))]

\* CustomerProfile.log: the entry goes in at index 0
log(profile, kind, text, values) ==
  [profile EXCEPT !.timeline = <<TimelineEntry(kind, text, values)>> \o @]

\* _create_default_state
DefaultProfile ==
  log(log(log(
    [segments |-> <<FlightSegment(OA476, <<"2","0","2","5","-","1","0","-","0","2">>, SFO, JFK,
                                  <<"0","8",":","0","5">>, <<"1","6",":","3","5">>, <<"1","4","A">>),
                    FlightSegment(OA477, <<"2","0","2","5","-","1","0","-","1","0">>, JFK, SFO,
                                  <<"1","8",":","5","0">>, <<"2","2",":","1","5">>, <<"1","5","C">>)>>,
     bags_checked |-> 0,
     meal_preference |-> NoStr,
     special_assistance |-> NoStr,
     timeline |-> <<>>,
     booked_widget_ids |-> <<>>],
    "system", "Itinerary imported from confirmation LL0EZ6.", <<>>),
    "success", "Waived change fees for October trip.", <<>>),
    "info", "Added note: enjoys single-origin drip coffee.", <<>>)

\* a get_profile that builds a new default profile on every call
ProfileAlwaysNew(thread_id) == DefaultProfile

\* the profile get_profile(thread_id) hands back: the stored one, or the
\* default one it stores first
ProfileOf(thread_id) ==
  IF profiles[thread_id] = NoProfile THEN DefaultProfile ELSE profiles[thread_id]

\* _is_valid_seat
_is_valid_seat(seat) ==
  LET s == StrUpper(StrStrip(seat)) IN
    IF Len(s) < 2 THEN FALSE
    ELSE StrIsDigit(SubSeq(s, 1, Len(s) - 1)) /\ StrIsAlpha(<<s[Len(s)]>>)

\* _find_segment: the index of the first matching segment, 0 for None
_find_segment(profile, flight_number) ==
  LET wanted == StrStrip(StrUpper(flight_number))
      hits == {i \in DOMAIN profile.segments :
                 StrUpper(profile.segments[i].flight_number) = wanted}
  IN IF hits = {} THEN 0 ELSE CHOOSE i \in hits : \A j \in hits : i <= j

Returned(profile) == [profile |-> profile, raised |-> "none"]
Raised(profile, error) == [profile |-> profile, raised |-> error]

\* change_seat that stores the seat before it validates anything
ChangeSeatThenValidate(profile, flight_number, seat) ==
  LET i == IF _find_segment(profile, flight_number) = 0 THEN 1
           ELSE _find_segment(profile, flight_number)
      stored == [profile EXCEPT !.segments[i].seat = StrUpper(seat)]
  IN IF ~_is_valid_seat(seat) \/ _find_segment(profile, flight_number) = 0
     THEN Raised(stored, "ValueError")
     ELSE Returned(log(stored, "success", "Seat changed",
                       <<profile.segments[i].flight_number, profile.segments[i].seat,
                         StrUpper(seat)>>))

\* change_seat on the profile get_profile returned: the profile afterwards
\* and the exception raised, if any
change_seat(profile, flight_number, seat) ==
  IF ~_is_valid_seat(seat) THEN Raised(profile, "ValueError")
  ELSE LET i == _find_segment(profile, flight_number) IN
    IF i = 0 THEN Raised(profile, "ValueError")
    ELSE LET previous == profile.segments[i].seat
             changed == [profile EXCEPT !.segments[i].seat = StrUpper(seat)]
         IN Returned(log(changed, "success", "Seat changed",
                         <<changed.segments[i].flight_number, previous,
                           changed.segments[i].seat>>))

\* str(n) for a bag count
DigitChars == <<"0","1","2","3","4","5","6","7","8","9">>
RECURSIVE Decimal(_)
Decimal(n) == IF n < 10 THEN <<DigitChars[n + 1]>> ELSE Decimal(n \div 10) \o <<DigitChars[(n % 10) + 1]>>

\* add_bag
add_bag(profile) ==
  LET counted == [profile EXCEPT !.bags_checked = @ + 1] IN
    Returned(log(counted, "info", "Added checked bag", <<Decimal(counted.bags_checked)>>))

\* a call that returned `value`, with the profile afterwards
ReturnedValue(profile, value) == [profile |-> profile, raised |-> "none", value |-> value]
\* a call that raised `error` with message `value`
RaisedValue(profile, error, value) == [profile |-> profile, raised |-> error, value |-> value]
\* a formatted message: its fixed text and the values formatted into it
Text(text, values) == [text |-> text, values |-> values]

\* set_meal
set_meal(profile, meal) ==
  ReturnedValue(log([profile EXCEPT !.meal_preference = meal],
                    "info", "Meal preference updated", <<meal>>),
                Text("We'll note as the meal preference.", <<meal>>))

\* record_upgrade
record_upgrade(profile, cabin, price_text) ==
  ReturnedValue(log(profile, "info", "Accepted upgrade", <<cabin, price_text>>),
                Text("upgrade confirmed.", <<cabin, price_text>>))

\* record_booking_hold
record_booking_hold(profile, destination, depart_label, return_label) ==
  ReturnedValue(log(profile, "success", "Placed hold", <<destination, depart_label, return_label>>),
                Text("Flights are on hold", <<destination, depart_label, return_label>>))

\* record_flight_booking: the new segment goes last, its log entry first
record_flight_booking(profile, flight_number, date, origin, destination, depart_time, arrival_time, seat) ==
  LET segment == FlightSegment(flight_number, date, origin, destination, depart_time,
                               arrival_time, seat)
      booked == [profile EXCEPT !.segments = Append(@, segment)]
  IN ReturnedValue(log(booked, "success", "Scheduled",
                       <<flight_number, origin, destination, date, depart_time, arrival_time,
                         seat>>),
                   segment)

\* is_widget_consumed
is_widget_consumed(profile, widget_id) ==
  \E i \in DOMAIN profile.booked_widget_ids : profile.booked_widget_ids[i] = widget_id

\* mark_widget_consumed
mark_widget_consumed(profile, widget_id) ==
  IF is_widget_consumed(profile, widget_id) THEN profile
  ELSE [profile EXCEPT !.booked_widget_ids = Append(@, widget_id)]

\* a rebooking that writes its timeline entry before it looks the flight up
RebookLogsFirst(profile, flight_number, depart_time, arrival_time, note) ==
  LET i == _find_segment(profile, flight_number)
      logged == log(profile, "success", "Rebooked", <<flight_number, depart_time, arrival_time, note>>)
  IN IF i = 0
     THEN RaisedValue(logged, "ValueError",
                      Text("Flight is not on the customer's itinerary.", <<flight_number>>))
     ELSE ReturnedValue([logged EXCEPT !.segments[i].departure_time = depart_time,
                                       !.segments[i].arrival_time = arrival_time],
                        Text("You're now set", <<flight_number, depart_time>>))

\* rebook_segment
rebook_segment(profile, flight_number, depart_time, arrival_time, note) ==
  LET i == _find_segment(profile, flight_number) IN
    IF i = 0
    THEN RaisedValue(profile, "ValueError",
                     Text("Flight is not on the customer's itinerary.", <<flight_number>>))
    ELSE LET rebooked == [profile EXCEPT !.segments[i].departure_time = depart_time,
                                         !.segments[i].arrival_time = arrival_time]
         IN ReturnedValue(
              log(rebooked, "success", "Rebooked",
                  <<flight_number, profile.segments[i].departure_time,
                    profile.segments[i].arrival_time, depart_time, arrival_time, note>>),
              Text("You're now set", <<flight_number, depart_time>>))

\* the record of a manager call: what was called on which thread, the
\* profile get_profile returned to it, and the exception it raised
AirCall(op, thread_id, before, raised_) ==
  [op |-> op, thread |-> thread_id, before |-> before, outcome |-> raised_]

\* get_profile(thread_id): stores the default profile on first access
GetProfile(thread_id) ==
  /\ profiles[thread_id] = NoProfile
  /\ profiles' = [profiles EXCEPT ![thread_id] = ProfileOf(thread_id)]
  /\ airLast' = AirCall("get_profile", thread_id, ProfileOf(thread_id), "none")
  /\ airChecks' = NoChecks
  /\ UNCHANGED <<now, cat, storeVars, reqVars, srvVars, airCount>>

\* a manager call whose result on the thread's profile is `r`
Apply(thread_id, op, r) ==
  /\ r.raised = "none" => airCount < MaxAirOps
  /\ profiles' = [profiles EXCEPT ![thread_id] = r.profile]
  /\ airLast' = AirCall(op, thread_id, ProfileOf(thread_id), r.raised)
  /\ airCount' = IF r.raised = "none" THEN airCount + 1 ELSE airCount
  /\ UNCHANGED <<now, cat, storeVars, reqVars, srvVars>>

\* change_seat(thread_id, flight_number, seat); what the validator and the
\* segment lookup say of the arguments is kept with the call's record
ChangeSeat(thread_id, flight_number, seat) ==
  /\ Apply(thread_id, "change_seat", change_seat(ProfileOf(thread_id), flight_number, seat))
  /\ airChecks' = [seat_valid |-> _is_valid_seat(seat),
                   flight_found |-> _find_segment(ProfileOf(thread_id), flight_number) # 0]

AddBag(thread_id) ==
  /\ Apply(thread_id, "add_bag", add_bag(ProfileOf(thread_id)))
  /\ airChecks' = NoChecks

\* what a caller does to the CustomerProfile object get_profile handed it
CallerEdit(profile) == [profile EXCEPT !.bags_checked = 0 - 1, !.timeline = <<>>]

\* get_profile returns self._states[thread_id], the stored object itself:
\* the caller's writes to it are writes to the stored profile
EditReturnedProfile(thread_id) ==
  /\ profiles[thread_id] # NoProfile
  /\ profiles[thread_id] # CallerEdit(profiles[thread_id])
  /\ airCount < MaxAirOps
  /\ airCount' = airCount + 1
  /\ profiles' = [profiles EXCEPT ![thread_id] = CallerEdit(@)]
  /\ airLast' = AirCall("caller_edit", thread_id, profiles[thread_id], "none")
  /\ airChecks' = NoChecks
  /\ UNCHANGED <<now, cat, storeVars, reqVars, srvVars>>

(***************************************************************************)
(* SpecAirline: any sequence of manager calls on two threads.              *)
(***************************************************************************)
\* seats the validator accepts ("1c", " 1c", "12c") and seats it refuses
SeatInputs ==
  {<<"1","c">>, <<" ","1","c">>, <<"1","2","c">>,
   <<>>, <<" ">>, <<"1">>, <<"c">>, <<"c","1">>, <<"1","-","c">>, <<"b","a","d">>}
FlightInputs == {OA476, <<" ","o","a","4","7","7">>, <<"Z","Z","9","9","9">>}

NextAirline ==
  \E t \in Keys :
    \/ GetProfile(t)
    \/ \E f \in FlightInputs, seat \in SeatInputs : ChangeSeat(t, f, seat)
    \/ AddBag(t)
    \/ EditReturnedProfile(t)

SpecAirline == Init /\ [][NextAirline]_vars

(***************************************************************************)
(* Claims about AirlineStateManager.                                       *)
(***************************************************************************)
Seats(profile) == [i \in DOMAIN profile.segments |-> profile.segments[i].seat]

\* the last call was change_seat with a seat the validator refuses or a
\* flight that is on no segment of the profile
BadSeatChange ==
  /\ airLast.op = "change_seat"
  /\ ~airChecks.seat_valid \/ ~airChecks.flight_found

\* C10: change_seat with a seat that is not a row number followed by a
\* letter, or with a flight that is not on the itinerary, raises ValueError
\* and leaves the thread's profile as it was: same seats, same timeline.
C10_BadSeatRejected ==
  BadSeatChange =>
    /\ airLast.outcome = "ValueError"
    /\ profiles[airLast.thread] = airLast.before
    /\ Seats(profiles[airLast.thread]) = Seats(airLast.before)
    /\ profiles[airLast.thread].timeline = airLast.before.timeline

\* a rejected change_seat on a profile whose seat had been changed before
C10_Witness ==
  \E t \in Keys :
    /\ BadSeatChange
    /\ airLast.thread = t
    /\ ~airChecks.seat_valid
    /\ profiles[t] # NoProfile
    /\ profiles[t].segments[1].seat = <<"1","2","C">>
    /\ Len(profiles[t].timeline) = 4

\* a seat code as the claim describes it: one or more digits, then one
\* upper-case letter
WellFormedSeat(seat) ==
  /\ Len(seat) >= 2
  /\ \A i \in 1..(Len(seat) - 1) : seat[i] \in Digits
  /\ seat[Len(seat)] \in UpperSet

\* C11 (as claimed): every seat a profile holds, after any sequence of
\* change_seat calls that succeeded, is a well-formed upper-case seat code.
C11_SeatNormalized ==
  \A t \in Keys :
    profiles[t] # NoProfile =>
      \A i \in DOMAIN profiles[t].segments : WellFormedSeat(profiles[t].segments[i].seat)

\* C15 (as claimed): no value an accessor returns aliases a stored entity,
\* so a caller that modifies the profile get_profile returned leaves the
\* stored profiles as they were.
C15_AccessorsReturnCopies == [][airLast'.op = "caller_edit" => UNCHANGED profiles]_vars

(***************************************************************************)
(* customer-support server.py: CustomerSupportServer.action and the        *)
(* handlers it dispatches to.  A handler is an async generator; its result *)
(* here is what the caller of action() gets by running it to the end: the  *)
(* thread's profile afterwards, the items it added to the ChatKit store,   *)
(* the events it yielded, and the exception that ended it, if any.         *)
(***************************************************************************)
SET_MEAL_PREFERENCE_ACTION_TYPE == "support.set_meal_preference"
FLIGHT_SELECT_ACTION_TYPE == "flight.select"
BOOKING_CONFIRM_ACTION_TYPE == "booking.confirm_selection"
BOOKING_MODIFY_ACTION_TYPE == "booking.modify_request"
UPSELL_ACCEPT_ACTION_TYPE == "upsell.accept"
UPSELL_DECLINE_ACTION_TYPE == "upsell.decline"
REBOOK_SELECT_ACTION_TYPE == "rebook.select_option"

Has(payload, key) == payload.shape = "dict" /\ key \in DOMAIN payload.fields
\* `action.payload or {}`
OrEmptyDict(payload) == IF payload.shape = "None" THEN EmptyDict ELSE payload
\* dict.get(key, default)
Get(payload, key, default) == IF Has(payload, key) THEN payload.fields[key] ELSE default

Event(type, item, text) == [type |-> type, item |-> item, text |-> text]
\* ThreadItemDoneEvent(item=self._assistant_message(thread, text, context))
MessageEvent(text) == Event("ThreadItemDoneEvent", "assistant_message", text)
\* ThreadItemUpdated(item_id=sender.id, update=WidgetRootUpdated(widget=...))
WidgetUpdatedEvent(sender) == Event("ThreadItemUpdated", "widget", Text("widget of", <<sender>>))
\* _profile_effect: the profile as get_profile hands it out when the event is built
_profile_effect(profile) ==
  [type |-> "ClientEffectEvent", item |-> "customer_profile/update",
   text |-> Text("profile", <<>>), data |-> profile]
HiddenItem(thread, content) == [thread |-> thread, type |-> "hidden_context", content |-> content]

Handled(profile, items, yielded, raised_) ==
  [profile |-> profile, items |-> items, events |-> yielded, raised |-> raised_]
\* a handler that returned before touching anything
Unhandled(thread) == Handled(profiles[thread], <<>>, <<>>, "none")

StrLower(s) == [i \in DOMAIN s |-> LowerChar(s[i])]
Take(s, n) == SubSeq(s, 1, Min(n, Len(s)))

\* ---- support.set_meal_preference ---------------------------------------
MealPreferenceOption ==
  {<<"v","e","g","e","t","a","r","i","a","n">>, <<"k","o","s","h","e","r">>, <<"g","l","u","t","e","n"," ","i","n","t","o","l","e","r","a","n","t">>, <<"c","h","i","l","d">>}

\* _MEAL_PREFERENCE_LABELS.get(value, value.title())
meal_preference_label(value) ==
  IF value \in MealPreferenceOption THEN <<UpperChar(value[1])>> \o Tail(value)
  ELSE StrTitle(value)

NotParsed == [ok |-> FALSE]
\* SetMealPreferencePayload.model_validate(action.payload or {}), None on ValidationError
_parse_meal_preference_payload(payload) ==
  LET d == OrEmptyDict(payload) IN
    IF Has(d, "meal") /\ d.fields.meal \in MealPreferenceOption
    THEN [ok |-> TRUE, meal |-> d.fields.meal]
    ELSE NotParsed

_handle_meal_preference_action(thread, payload, sender) ==
  LET parsed == _parse_meal_preference_payload(payload) IN
    IF ~parsed.ok THEN Unhandled(thread)
    ELSE LET meal_label == meal_preference_label(parsed.meal)
             r == set_meal(ProfileOf(thread), meal_label)
         IN IF sender # NoStr
            THEN Handled(r.profile,
                         <<HiddenItem(thread, Text("WIDGET_ACTION support.set_meal_preference payload",
                                                   <<sender, parsed.meal>>))>>,
                         <<WidgetUpdatedEvent(sender),
                           MessageEvent(Text("Your meal preference has been updated",
                                             <<meal_label>>)),
                           _profile_effect(r.profile)>>,
                         "none")
            ELSE Handled(r.profile, <<>>, <<_profile_effect(r.profile)>>, "none")

\* ---- flight.select -------------------------------------------------------
Outbound == <<"o","u","t","b","o","u","n","d">>
FlightLeg == {Outbound, <<"r","e","t","u","r","n">>}
FlightOptionFields ==
  {"id", "from_airport", "to_airport", "dep_time", "arr_time", "date_label", "cabin"}
FlightSearchRequestFields == {"origin", "destination", "depart_date", "return_date", "cabin"}

\* _sanitize_airport_code: both branches give the first three characters
_sanitize_airport_code(raw) == Take(StrUpper(StrStrip(raw)), 3)

\* _format_date_label for a date datetime.fromisoformat rejects: the input
\* comes back (the requests dispatched here carry no ISO date)
_format_date_label(raw_date) == raw_date

FlightOption(id, request, dep_time, arr_time) ==
  [id |-> id,
   from_airport |-> _sanitize_airport_code(request.origin),
   to_airport |-> _sanitize_airport_code(request.destination),
   dep_time |-> dep_time, arr_time |-> arr_time,
   date_label |-> _format_date_label(request.depart_date),
   cabin |-> StrTitle(request.cabin)]

generate_flight_options(request) ==
  <<FlightOption(<<"f","l","i","g","h","t","-","m","o","r","n","i","n","g">>, request, <<"0","8",":","1","0">>, <<"1","6",":","4","0">>),
    FlightOption(<<"f","l","i","g","h","t","-","m","i","d","d","a","y">>, request, <<"1","2",":","3","5">>, <<"2","1",":","0","5">>),
    FlightOption(<<"f","l","i","g","h","t","-","l","a","t","e">>, request, <<"2","1",":","5","5">>, <<"0","6",":","2","0"," ","(","+","1",")">>)>>

\* FlightSelectPayload.model_validate(action.payload or {}), None on ValidationError
_parse_flight_select_payload(payload) ==
  LET d == OrEmptyDict(payload) IN
    IF /\ Has(d, "id") /\ Has(d, "options") /\ Has(d, "request")
       /\ \A i \in DOMAIN d.fields.options :
            FlightOptionFields \subseteq DOMAIN d.fields.options[i]
       /\ FlightSearchRequestFields \subseteq DOMAIN d.fields.request
       /\ Has(d, "leg") => d.fields.leg \in FlightLeg
    THEN [ok |-> TRUE, id |-> d.fields.id, options |-> d.fields.options,
          request |-> d.fields.request, leg |-> Get(d, "leg", Outbound)]
    ELSE NotParsed

\* _generate_flight_number
_generate_flight_number(leg) ==
  IF leg = Outbound THEN <<"O","A","9","1","7">> ELSE <<"O","A","9","2","7">>

\* _pick_default_seat: the seats random.randint and random.choice can give
_pick_default_seat(cabin) ==
  LET normalized == StrStrip(StrLower(cabin))
      letters == CASE normalized = <<"f","i","r","s","t">> -> {"A", "D"}
                   [] normalized = <<"b","u","s","i","n","e","s","s">> -> {"A", "C", "D", "F"}
                   [] OTHER -> {"A", "B", "C", "D", "E", "F"}
      rows == CASE normalized = <<"f","i","r","s","t">> -> 1..3
                [] normalized = <<"b","u","s","i","n","e","s","s">> -> 4..9
                [] normalized = <<"p","r","e","m","i","u","m"," ","e","c","o","n","o","m","y">> -> 10..19
                [] normalized = <<"e","c","o","n","o","m","y">> -> 20..45
                [] OTHER -> 12..38
  IN {Decimal(row) \o <<letter>> : row \in rows, letter \in letters}

\* describe_flight_option: the values the summary is formatted from
describe_flight_option(option, request) ==
  <<option.cabin, option.from_airport, option.to_airport,
    _format_date_label(request.depart_date), option.dep_time, option.arr_time,
    request.return_date>>

\* `seat` is what _pick_default_seat returned
_handle_flight_select_action(thread, payload, sender, seat) ==
  LET parsed == _parse_flight_select_payload(payload) IN
  IF ~parsed.ok THEN Unhandled(thread)
  ELSE IF sender # NoStr /\ is_widget_consumed(ProfileOf(thread), sender)
  THEN Handled(ProfileOf(thread), <<>>, <<>>, "none")
  ELSE
    LET request == parsed.request
        options == IF parsed.options = <<>> THEN generate_flight_options(request)
                   ELSE parsed.options
        hits == {i \in DOMAIN options : options[i].id = parsed.id}
        \* is_widget_consumed has stored the profile when there is a sender
        looked == IF sender # NoStr THEN ProfileOf(thread) ELSE profiles[thread]
    IN IF hits = {} THEN Handled(looked, <<>>, <<>>, "none")
       ELSE
         LET selected == options[CHOOSE i \in hits : \A j \in hits : i <= j]
             origin == _sanitize_airport_code(request.origin)
             destination == _sanitize_airport_code(request.destination)
             \* ">" stands for the arrow between the two airports
             depart_label == request.depart_date \o <<" ">> \o selected.from_airport
                               \o <<">">> \o selected.to_airport \o <<" ">> \o selected.dep_time
             return_label == request.return_date \o <<" ">> \o request.destination
                               \o <<">">> \o request.origin
             hold == record_booking_hold(ProfileOf(thread), destination, depart_label,
                                         return_label)
             booking == record_flight_booking(hold.profile,
                                              _generate_flight_number(parsed.leg),
                                              request.depart_date, origin, destination,
                                              selected.dep_time, selected.arr_time, seat)
             scheduled == MessageEvent(Text(IF parsed.leg = Outbound
                                            THEN "Scheduled; I'll surface a few returns now."
                                            ELSE "Scheduled; Return scheduled.",
                                            describe_flight_option(selected, request)
                                              \o <<booking.value.seat>>))
             locked == IF sender # NoStr THEN <<WidgetUpdatedEvent(sender)>> ELSE <<>>
             after == IF sender # NoStr THEN mark_widget_consumed(booking.profile, sender)
                      ELSE booking.profile
             return_request == [origin |-> destination, destination |-> origin,
                                depart_date |-> request.return_date,
                                return_date |-> request.depart_date,
                                cabin |-> request.cabin]
             returns ==
               IF parsed.leg = Outbound
               THEN <<MessageEvent(Text("Here are return options that line up with your trip:",
                                        <<>>)),
                      [type |-> "ThreadItemDoneEvent", item |-> "widget",
                       text |-> Text("flight options", <<>>),
                       options |-> generate_flight_options(return_request)]>>
               ELSE <<>>
             hidden_ == HiddenItem(thread, Text("WIDGET_ACTION flight.select payload",
                                               <<IF sender # NoStr THEN sender ELSE <<"u","n","k","n","o","w","n">>,
                                                 parsed.id, parsed.leg>>))
         IN Handled(after, <<hidden_>>,
                    <<scheduled>> \o locked \o returns \o <<_profile_effect(after)>>, "none")

\* ---- booking.confirm_selection, booking.modify_request ------------------
_handle_booking_confirm_action(thread, payload) ==
  LET d == OrEmptyDict(payload) IN
    IF d.shape # "dict" THEN Handled(profiles[thread], <<>>, <<>>, "AttributeError")
    ELSE LET confirmation ==
               record_booking_hold(ProfileOf(thread),
                                   Get(d, "destination", <<"t","h","e"," ","t","r","i","p">>),
                                   Get(d, "depart_label", <<"o","u","t","b","o","u","n","d"," ","f","l","i","g","h","t">>),
                                   Get(d, "return_label", <<"r","e","t","u","r","n"," ","f","l","i","g","h","t">>))
         IN Handled(confirmation.profile, <<>>,
                    <<MessageEvent(Text("I'll keep monitoring inventory",
                                        confirmation.value.values)),
                      _profile_effect(confirmation.profile)>>,
                    "none")

_handle_booking_modify_action(thread) ==
  Handled(profiles[thread], <<>>,
          <<MessageEvent(Text("Happy to tweak the plan.", <<>>))>>, "none")

\* ---- upsell.accept, upsell.decline --------------------------------------
_handle_upgrade_action(thread, payload, accepted) ==
  LET d == OrEmptyDict(payload) IN
    IF d.shape # "dict" THEN Handled(profiles[thread], <<>>, <<>>, "AttributeError")
    ELSE LET cabin == Get(d, "cabin_name", <<"t","h","e"," ","u","p","g","r","a","d","e">>)
             price == Get(d, "price", <<"t","h","e"," ","q","u","o","t","e","d"," ","a","m","o","u","n","t">>)
         IN IF accepted
            THEN LET confirmation == record_upgrade(ProfileOf(thread), cabin, price) IN
                   Handled(confirmation.profile, <<>>,
                           <<MessageEvent(confirmation.value),
                             _profile_effect(confirmation.profile)>>,
                           "none")
            ELSE Handled(profiles[thread], <<>>,
                         <<MessageEvent(Text("No worries, I'll keep the current cabin",
                                             <<StrLower(cabin)>>))>>,
                         "none")

_handle_upgrade_accept_action(thread, payload) == _handle_upgrade_action(thread, payload, TRUE)
_handle_upgrade_decline_action(thread, payload) == _handle_upgrade_action(thread, payload, FALSE)

\* ---- rebook.select_option -----------------------------------------------
Keep == <<"k","e","e","p">>
_handle_rebook_action(thread, payload) ==
  LET d == OrEmptyDict(payload) IN
    IF d.shape # "dict" THEN Handled(profiles[thread], <<>>, <<>>, "AttributeError")
    ELSE LET flight_number == Get(d, "flight_number", NoStr)
             option_id == Get(d, "option_id", NoStr)
             depart_time == Get(d, "depart_time", NoStr)
             arrival_time == Get(d, "arrival_time", NoStr)
             note == Get(d, "option_note", <<"S","e","l","e","c","t","e","d"," ","a","l","t","e","r","n","a","t","e"," ","t","i","m","e">>)
         IN IF flight_number = NoStr \/ flight_number = <<>> \/ option_id = NoStr
            THEN Unhandled(thread)
            ELSE IF option_id = Keep
            THEN Handled(profiles[thread], <<>>,
                         <<MessageEvent(Text("Sounds good, we'll keep the original departure on file.",
                                             <<>>))>>,
                         "none")
            ELSE LET r == rebook_segment(ProfileOf(thread), flight_number,
                                         IF depart_time = NoStr THEN <<>> ELSE depart_time,
                                         IF arrival_time = NoStr THEN <<>> ELSE arrival_time,
                                         note)
                 IN \* a ValueError is caught and its message becomes the confirmation
                    Handled(r.profile, <<>>,
                            <<MessageEvent(r.value), _profile_effect(r.profile)>>, "none")

\* ---- CustomerSupportServer.action ---------------------------------------
\* self._action_handlers: the registered action types
_action_handlers ==
  {SET_MEAL_PREFERENCE_ACTION_TYPE, FLIGHT_SELECT_ACTION_TYPE, BOOKING_CONFIRM_ACTION_TYPE,
   BOOKING_MODIFY_ACTION_TYPE, UPSELL_ACCEPT_ACTION_TYPE, UPSELL_DECLINE_ACTION_TYPE,
   REBOOK_SELECT_ACTION_TYPE}

\* a lookup that finds a handler for every type
HandlerForAnyType(type) == FALSE
\* self._action_handlers.get(action.type) is None
NoSupportHandler(type) == type \notin _action_handlers

CustomerSupportAction(thread, type, payload, sender, seat) ==
  IF NoSupportHandler(type) THEN Unhandled(thread)
  ELSE CASE type = SET_MEAL_PREFERENCE_ACTION_TYPE ->
              _handle_meal_preference_action(thread, payload, sender)
         [] type = FLIGHT_SELECT_ACTION_TYPE ->
              _handle_flight_select_action(thread, payload, sender, seat)
         [] type = BOOKING_CONFIRM_ACTION_TYPE -> _handle_booking_confirm_action(thread, payload)
         [] type = BOOKING_MODIFY_ACTION_TYPE -> _handle_booking_modify_action(thread)
         [] type = UPSELL_ACCEPT_ACTION_TYPE -> _handle_upgrade_accept_action(thread, payload)
         [] type = UPSELL_DECLINE_ACTION_TYPE -> _handle_upgrade_decline_action(thread, payload)
         [] OTHER -> _handle_rebook_action(thread, payload)


(***************************************************************************)
(* metro-map server.py: MetroMapServer.action.                             *)
(***************************************************************************)
LINE_SELECT_ACTION_TYPE == "line.select"

\* what a handler of a server without profiles did: items added, events
\* yielded, exception
Outcome(items, yielded, raised_) == [items |-> items, events |-> yielded, raised |-> raised_]
Ignored == Outcome(<<>>, <<>>, "none")

\* payload["key"] on a payload that has no such key
SubscriptError(payload) == IF payload.shape = "dict" THEN "KeyError" ELSE "TypeError"

_handle_line_select_action(thread, payload, sender) ==
  IF ~Has(payload, "id") THEN Outcome(<<>>, <<>>, SubscriptError(payload))
  ELSE LET line_id == payload.fields.id IN
    Outcome(<<HiddenItem(thread, Text("LINE_SELECTED", <<line_id>>))>>,
            (IF sender # NoStr
             THEN <<Event("ThreadItemReplacedEvent", "widget", Text("widget of", <<sender>>))>>
             ELSE <<>>)
              \o <<MessageEvent(Text("Would you like to add the station to the beginning or end of the line?",
                                     <<>>)),
                   Event("ClientEffectEvent", "location_select_mode", Text("lineId", <<line_id>>))>>,
            "none")

MetroMapAction(thread, type, payload, sender) ==
  IF type = LINE_SELECT_ACTION_TYPE
  THEN IF payload.shape = "None" THEN Ignored
       ELSE _handle_line_select_action(thread, payload, sender)
  ELSE Ignored

(***************************************************************************)
(* news-guide server.py: NewsAssistantServer.action.  The article store    *)
(* and the event store are read only; they hold the ids below.             *)
(***************************************************************************)
OPEN_ARTICLE_ACTION_TYPE == "open_article"
VIEW_EVENT_DETAILS_ACTION_TYPE == "view_event_details"
ArticleIds == {<<"a","r","t","-","1">>}
EventIds == {<<"e","v","t","-","1">>, <<"e","v","t","-","2">>}

\* ArticleStore.get_metadata(article_id) is not None
get_metadata(article_id) == article_id \in ArticleIds
\* EventStore.get_event(event_id) is not None
get_event(event_id) == event_id \in EventIds

_handle_open_article_action(payload) ==
  IF payload.shape # "dict" THEN Outcome(<<>>, <<>>, "AttributeError")
  ELSE LET article_id == Get(payload, "id", NoStr) IN
    IF article_id = NoStr \/ article_id = <<>> THEN Ignored
    ELSE Outcome(<<>>,
                 <<MessageEvent(IF get_metadata(article_id)
                                THEN Text("Want a quick summary of the titled article?",
                                          <<article_id>>)
                                ELSE Text("Want a quick summary or have any questions about this article?",
                                          <<>>))>>,
                 "none")

\* `listView` is isinstance(sender.widget, ListView)
_handle_view_event_details_action(payload, sender, listView) ==
  IF payload.shape # "dict" THEN Outcome(<<>>, <<>>, "AttributeError")
  ELSE LET selected_event_id == Get(payload, "id", NoStr)
           listed == Get(payload, "event_ids", <<>>)
           event_ids == SelectSeq(listed, LAMBDA e : e # <<>>)
           is_selected == Get(payload, "is_selected", FALSE)
           record == selected_event_id # NoStr /\ selected_event_id # <<>>
                       /\ get_event(selected_event_id)
       IN IF is_selected \/ ~record \/ event_ids = <<>> \/ sender = NoStr \/ ~listView
          THEN Ignored
          ELSE Outcome(<<>>, <<WidgetUpdatedEvent(sender)>>, "none")

NewsGuideAction(type, payload, sender, listView) ==
  IF type = OPEN_ARTICLE_ACTION_TYPE THEN _handle_open_article_action(payload)
  ELSE IF type = VIEW_EVENT_DETAILS_ACTION_TYPE
  THEN _handle_view_event_details_action(payload, sender, listView)
  ELSE Ignored

(***************************************************************************)
(* cat-lounge server.py: CatAssistantServer.action.  From the load on, the *)
(* handler is the naming request above.                                    *)
(***************************************************************************)
CATS_SELECT_NAME_ACTION_TYPE == "cats.select_name"

\* an action that ended before the handler's first await
ActionRequest(k, type, payload) ==
  [kind |-> "action", thread |-> k, name |-> <<>>, type |-> type, payload |-> payload]

EndAtOnce(p, request, how) ==
  /\ CanBegin(p)
  /\ nreqs' = nreqs + 1
  /\ req' = [req EXCEPT ![p] = request]
  /\ hpc' = [hpc EXCEPT ![p] = "finished"]
  /\ outcome' = [outcome EXCEPT ![p] = how]
  /\ events' = [events EXCEPT ![p] = 0]
  /\ UNCHANGED <<now, cat, airVars, srvVars, storeVars, title, hidden>>

CatAction(p, k, type, payload, hasSender) ==
  IF type # CATS_SELECT_NAME_ACTION_TYPE
  THEN EndAtOnce(p, ActionRequest(k, type, payload), "ignored")
  ELSE IF ~Has(payload, "name")
  THEN EndAtOnce(p, ActionRequest(k, type, payload), SubscriptError(payload))
  ELSE IF StrStrip(payload.fields.name) # <<>> /\ hasSender /\ ~Has(payload, "options")
  THEN EndAtOnce(p, ActionRequest(k, type, payload), "KeyError")
  ELSE BeginSelectName(p, k, payload.fields.name, hasSender)

(***************************************************************************)
(* SpecActions: one example server takes widget actions on one thread,     *)
(* each handler running to its end before the next action arrives.         *)
(***************************************************************************)
MaxDispatch == 2

WidgetId == <<"w","i","d","_","1">>
Senders == {NoStr, WidgetId}
UNKNOWN_ACTION_TYPE == "nonexistent.action"

\* the server and the thread of the behaviour are those of its first action
Serving(srv, thread) ==
  /\ ndisp < MaxDispatch
  /\ nreqs = 0
  /\ actLast.server \in {"none", srv}
  /\ actLast.thread \in {"none", thread}

Dispatched(srv, thread, type, payload, sender, r) ==
  /\ Serving(srv, thread)
  /\ ndisp' = ndisp + 1
  /\ threadItems' = [threadItems EXCEPT ![srv] = @ \o r.items]
  /\ actLast' = [server |-> srv, thread |-> thread, type |-> type, payload |-> payload,
                 sender |-> sender, events |-> r.events, raised |-> r.raised]
  /\ UNCHANGED <<now, cat, storeVars, reqVars, airLast, airChecks, airCount, weather, appVars>>

\* ---- the actions a client sends -------------------------------------------
Vegetarian == <<"v","e","g","e","t","a","r","i","a","n">>
SearchRequest ==
  [origin |-> <<" ","s","f","o"," ">>, destination |-> <<"j","f","k">>, depart_date |-> <<"s","o","o","n">>,
   return_date |-> <<"l","a","t","e","r">>, cabin |-> <<"f","i","r","s","t">>]
FlightMorning == <<"f","l","i","g","h","t","-","m","o","r","n","i","n","g">>
SelectFlight(id, leg) ==
  Dict([id |-> id, options |-> <<>>, request |-> SearchRequest, leg |-> leg])
Rebook(flight_number, option_id) ==
  Dict([flight_number |-> flight_number, option_id |-> option_id,
        depart_time |-> <<"0","9",":","3","0">>, arrival_time |-> <<"1","8",":","0","0">>])

SupportActions ==
  {<<UNKNOWN_ACTION_TYPE, PayloadNone>>,
   <<UNKNOWN_ACTION_TYPE, Rebook(OA476, <<"o","p","t","-","1">>)>>,
   <<SET_MEAL_PREFERENCE_ACTION_TYPE, Dict([meal |-> Vegetarian])>>,
   <<SET_MEAL_PREFERENCE_ACTION_TYPE, Dict([meal |-> <<"p","i","z","z","a">>])>>,
   <<SET_MEAL_PREFERENCE_ACTION_TYPE, PayloadNone>>,
   <<SET_MEAL_PREFERENCE_ACTION_TYPE, PayloadList>>,
   <<FLIGHT_SELECT_ACTION_TYPE, SelectFlight(FlightMorning, Outbound)>>,
   <<FLIGHT_SELECT_ACTION_TYPE, SelectFlight(<<"f","l","i","g","h","t","-","z","z","z">>, <<"r","e","t","u","r","n">>)>>,
   <<FLIGHT_SELECT_ACTION_TYPE, SelectFlight(FlightMorning, <<"s","i","d","e","w","a","y","s">>)>>,
   <<FLIGHT_SELECT_ACTION_TYPE, Dict([id |-> FlightMorning])>>,
   <<BOOKING_CONFIRM_ACTION_TYPE, Dict([destination |-> JFK])>>,
   <<BOOKING_CONFIRM_ACTION_TYPE, PayloadNone>>,
   <<BOOKING_CONFIRM_ACTION_TYPE, PayloadList>>,
   <<BOOKING_MODIFY_ACTION_TYPE, PayloadNone>>,
   <<UPSELL_ACCEPT_ACTION_TYPE, Dict([cabin_name |-> <<"F","i","r","s","t">>, price |-> <<"$","2","0","0">>])>>,
   <<UPSELL_ACCEPT_ACTION_TYPE, EmptyDict>>,
   <<UPSELL_DECLINE_ACTION_TYPE, Dict([cabin_name |-> <<"F","i","r","s","t">>, price |-> <<"$","2","0","0">>])>>,
   <<UPSELL_DECLINE_ACTION_TYPE, PayloadList>>,
   <<REBOOK_SELECT_ACTION_TYPE, Rebook(OA476, <<"o","p","t","-","1">>)>>,
   <<REBOOK_SELECT_ACTION_TYPE, Rebook(<<"Z","Z","9","9","9">>, <<"o","p","t","-","1">>)>>,
   <<REBOOK_SELECT_ACTION_TYPE, Rebook(OA476, Keep)>>,
   <<REBOOK_SELECT_ACTION_TYPE, Dict([flight_number |-> OA476, option_id |-> <<"o","p","t","-","1">>])>>,
   <<REBOOK_SELECT_ACTION_TYPE, Dict([option_id |-> <<"o","p","t","-","1">>])>>,
   <<REBOOK_SELECT_ACTION_TYPE, Dict([flight_number |-> OA476])>>,
   <<REBOOK_SELECT_ACTION_TYPE, PayloadNone>>}

MetroActions ==
  {<<UNKNOWN_ACTION_TYPE, PayloadNone>>,
   <<UNKNOWN_ACTION_TYPE, Dict([id |-> <<"b","l","u","e">>])>>,
   <<LINE_SELECT_ACTION_TYPE, Dict([id |-> <<"b","l","u","e">>])>>,
   <<LINE_SELECT_ACTION_TYPE, EmptyDict>>,
   <<LINE_SELECT_ACTION_TYPE, PayloadList>>,
   <<LINE_SELECT_ACTION_TYPE, PayloadNone>>}

NewsActions ==
  {<<UNKNOWN_ACTION_TYPE, PayloadNone>>,
   <<UNKNOWN_ACTION_TYPE, Dict([id |-> <<"a","r","t","-","1">>])>>,
   <<OPEN_ARTICLE_ACTION_TYPE, Dict([id |-> <<"a","r","t","-","1">>])>>,
   <<OPEN_ARTICLE_ACTION_TYPE, Dict([id |-> <<"a","r","t","-","9">>])>>,
   <<OPEN_ARTICLE_ACTION_TYPE, EmptyDict>>,
   <<OPEN_ARTICLE_ACTION_TYPE, PayloadNone>>,
   <<VIEW_EVENT_DETAILS_ACTION_TYPE,
     Dict([id |-> <<"e","v","t","-","1">>, event_ids |-> <<<<"e","v","t","-","1">>, <<"e","v","t","-","2">>>>, is_selected |-> FALSE])>>,
   <<VIEW_EVENT_DETAILS_ACTION_TYPE,
     Dict([id |-> <<"e","v","t","-","1">>, event_ids |-> <<<<"e","v","t","-","1">>, <<"e","v","t","-","2">>>>, is_selected |-> TRUE])>>,
   <<VIEW_EVENT_DETAILS_ACTION_TYPE, Dict([id |-> <<"e","v","t","-","9">>, event_ids |-> <<<<"e","v","t","-","1">>>>])>>,
   <<VIEW_EVENT_DETAILS_ACTION_TYPE, Dict([id |-> <<"e","v","t","-","1">>])>>,
   <<VIEW_EVENT_DETAILS_ACTION_TYPE, PayloadNone>>}

CatActions ==
  {<<UNKNOWN_ACTION_TYPE, PayloadNone>>,
   <<UNKNOWN_ACTION_TYPE, Dict([name |-> <<"k","i","t">>, options |-> <<>>])>>,
   <<CATS_SELECT_NAME_ACTION_TYPE, Dict([name |-> <<" ","t","o","m">>, options |-> <<>>])>>,
   <<CATS_SELECT_NAME_ACTION_TYPE, Dict([name |-> <<" ">>, options |-> <<>>])>>,
   <<CATS_SELECT_NAME_ACTION_TYPE, Dict([name |-> <<"k","i","t">>])>>,
   <<CATS_SELECT_NAME_ACTION_TYPE, Dict([options |-> <<>>])>>,
   <<CATS_SELECT_NAME_ACTION_TYPE, PayloadNone>>}

SupportDispatch ==
  \E thread \in Keys, a \in SupportActions, sender \in Senders :
    \E seat \in _pick_default_seat(SearchRequest.cabin) :
      LET r == CustomerSupportAction(thread, a[1], a[2], sender, seat) IN
        /\ Dispatched("customer-support", thread, a[1], a[2], sender, r)
        /\ profiles' = [profiles EXCEPT ![thread] = r.profile]

MetroDispatch ==
  \E thread \in Keys, a \in MetroActions, sender \in Senders :
    /\ Dispatched("metro-map", thread, a[1], a[2], sender,
                  MetroMapAction(thread, a[1], a[2], sender))
    /\ UNCHANGED profiles

NewsDispatch ==
  \E thread \in Keys, a \in NewsActions, sender \in Senders, listView \in BOOLEAN :
    /\ Dispatched("news-guide", thread, a[1], a[2], sender,
                  NewsGuideAction(a[1], a[2], sender, listView))
    /\ UNCHANGED profiles

\* the cat lounge's handler runs on caller 1 of the CatStore: an action
\* arrives, then action() is called on it; how it ends is in outcome[1] and
\* events[1]
CatReceive ==
  \E k \in Keys, a \in CatActions, sender \in Senders :
    /\ CanBegin(1)
    /\ ndisp = nreqs
    /\ actLast.server \in {"none", "cat-lounge"}
    /\ actLast.thread \in {"none", k}
    /\ ndisp' = ndisp + 1
    /\ actLast' = [server |-> "cat-lounge", thread |-> k, type |-> a[1], payload |-> a[2],
                   sender |-> sender, events |-> <<>>, raised |-> "none"]
    /\ UNCHANGED <<now, cat, storeVars, reqVars, airVars, threadItems, weather, appVars>>

CatDispatch ==
  /\ actLast.server = "cat-lounge"
  /\ ndisp > nreqs
  /\ CatAction(1, actLast.thread, actLast.type, actLast.payload, actLast.sender # NoStr)

NextActions ==
  \/ SupportDispatch
  \/ MetroDispatch
  \/ NewsDispatch
  \/ CatReceive
  \/ CatDispatch
  \/ SelectNameChecked(1)
  \/ Renamed(1)
  \/ StoreStep(1)

SpecActions == Init /\ [][NextActions]_vars

(***************************************************************************)
(* Claims about action dispatch.                                           *)
(***************************************************************************)
\* the action types each server's action() hands to a handler
RegisteredTypes ==
  [srv \in Servers |->
     CASE srv = "customer-support" ->
            {"support.set_meal_preference", "flight.select", "booking.confirm_selection",
             "booking.modify_request", "upsell.accept", "upsell.decline",
             "rebook.select_option"}
       [] srv = "cat-lounge" -> {"cats.select_name"}
       [] srv = "metro-map" -> {"line.select"}
       [] OTHER -> {"open_article", "view_event_details"}]

\* this step is action() of the customer-support, metro-map or news-guide
\* server, run to its end
ActionStep == ndisp' # ndisp /\ actLast'.server # "cat-lounge"
\* this step is action() of the cat-lounge server up to its first await
CatActionStep == nreqs' # nreqs /\ actLast.server = "cat-lounge"

\* C12: in each of the four servers an action whose type has no registered
\* handler yields no event, raises nothing, and changes neither the stored
\* profiles, the stored thread items, the cat store nor the thread titles.
C12_UnknownActionIgnored ==
  [][/\ (ActionStep /\ actLast'.type \notin RegisteredTypes[actLast'.server]) =>
          /\ actLast'.events = <<>>
          /\ actLast'.raised = "none"
          /\ UNCHANGED <<profiles, threadItems, storeVars, title, hidden>>
     /\ (CatActionStep /\ actLast.type \notin RegisteredTypes["cat-lounge"]) =>
          /\ events'[1] = 0
          /\ outcome'[1] = "ignored"
          /\ hpc'[1] = "finished"
          /\ UNCHANGED <<profiles, threadItems, storeVars, title, hidden>>]_vars

\* an action of an unknown type carrying a rebook payload was dispatched to
\* the customer-support server after an action that changed the profile
C12_Witness ==
  /\ actLast.server = "customer-support"
  /\ actLast.type = UNKNOWN_ACTION_TYPE
  /\ actLast.payload = Rebook(OA476, <<"o","p","t","-","1">>)
  /\ ndisp = 2
  /\ profiles[actLast.thread] # NoProfile
  /\ Len(profiles[actLast.thread].timeline) > Len(DefaultProfile.timeline)


\* a payload the handler of `type` cannot use: a field it reads is missing,
\* the payload is no dict, or a value is outside the allowed set
InvalidPayload(type, payload) ==
  CASE type = "support.set_meal_preference" -> ~_parse_meal_preference_payload(payload).ok
    [] type = "flight.select" -> ~_parse_flight_select_payload(payload).ok
    [] type = "rebook.select_option" ->
         ~(Has(payload, "flight_number") /\ Has(payload, "option_id"))
    [] type \in {"booking.confirm_selection", "booking.modify_request", "upsell.accept",
                 "upsell.decline"} -> payload.shape = "list"
    [] type = "cats.select_name" -> ~(Has(payload, "name") /\ Has(payload, "options"))
    [] type = "line.select" -> ~Has(payload, "id")
    [] type \in {"open_article", "view_event_details"} -> ~Has(payload, "id")
    [] OTHER -> FALSE

\* C13 (as claimed): an action of a registered type whose payload fails
\* validation yields no event, raises nothing and changes no stored state,
\* in every server.
C13_InvalidPayloadShortCircuits ==
  [][/\ (/\ ActionStep
         /\ actLast'.type \in RegisteredTypes[actLast'.server]
         /\ InvalidPayload(actLast'.type, actLast'.payload)) =>
          /\ actLast'.events = <<>>
          /\ actLast'.raised = "none"
          /\ UNCHANGED <<profiles, threadItems, storeVars, title, hidden>>
     /\ (/\ CatActionStep
         /\ actLast.type \in RegisteredTypes["cat-lounge"]
         /\ InvalidPayload(actLast.type, actLast.payload)) =>
          /\ events'[1] = 0
          /\ outcome'[1] = "ignored"
          /\ UNCHANGED <<profiles, threadItems, storeVars, title, hidden>>]_vars


(***************************************************************************)
(* weather.py: retrieve_weather, and chat.py: the get_weather tool around  *)
(* it.  A lookup asks the geocoding providers in turn and then the         *)
(* forecast service; what a service answers is chosen freely at each       *)
(* request.  `weather` keeps the providers called, the error               *)
(* _geocode_location holds in last_error, and the exception and message    *)
(* the lookup ended with.                                                  *)
(***************************************************************************)
\* what a geocoding service can answer: a usable result, an error status, no
\* connection, a body that is no JSON, no result, a result without
\* coordinates, a JSON object where a list of results is expected
GeocodeResponses ==
  {"ok", "http_error", "network_error", "not_json", "empty", "incomplete", "object"}
\* what the forecast service can answer
ForecastResponses ==
  {"ok", "http_error", "network_error", "not_json", "no_temperature", "not_a_dict"}

\* `unit` arguments: None, "c", "imperial", "kelvin"
UnitInputs == {"None", "c", "imperial", "kelvin"}
\* the units normalize_unit knows; it raises for any other
UnitKnown(unit) ==
  unit \in {"None", "c", "cel", "celsius", "metric", "f", "fahr", "fahrenheit", "imperial"}
\* normalize_unit on a unit it knows
normalize_unit(unit) ==
  IF unit \in {"None", "f", "fahr", "fahrenheit", "imperial"} THEN "fahrenheit" ELSE "celsius"

\* providers of _geocode_location, in its order
Providers == <<"nominatim", "open-meteo">>

Ended(raised_, message) == [raised |-> raised_, message |-> message]

\* _geocode_with_nominatim / _geocode_with_open_meteo on the response
\* `answer`: the exception the provider raises, "none" when it returns
GeocodeProvider(answer) ==
  CASE answer = "ok" -> Ended("none", "")
    [] answer = "http_error" -> Ended("HTTPStatusError", "")
    [] answer = "network_error" -> Ended("RequestError", "")
    [] answer = "not_json" -> Ended("JSONDecodeError", "")
    [] answer = "empty" ->
         Ended("WeatherLookupError",
               "I couldn't find that location. Try another nearby city or landmark.")
    [] answer = "incomplete" ->
         Ended("WeatherLookupError",
               "The location data returned from the geocoder was incomplete.")
    [] OTHER -> Ended("KeyError", "")

\* the except clauses of the loop in _geocode_location: the message of the
\* WeatherLookupError kept in last_error, "" when the exception is not caught
CaughtAs(e) ==
  CASE e.raised = "HTTPStatusError" -> "The geocoding service returned an error response."
    [] e.raised = "RequestError" -> "Unable to contact the geocoding service at the moment."
    [] e.raised = "WeatherLookupError" -> e.message
    [] OTHER -> ""

\* get_weather re-raises a WeatherLookupError as ValueError with its message
ToCaller(tool, e) ==
  IF tool /\ e.raised = "WeatherLookupError" THEN Ended("ValueError", e.message) ELSE e

LookupEnds(e) ==
  weather' = [weather EXCEPT !.pc = "done", !.raised = ToCaller(weather.tool, e).raised,
                             !.message = ToCaller(weather.tool, e).message]

WeatherFrame ==
  UNCHANGED <<now, cat, storeVars, reqVars, airVars, threadItems, actLast, ndisp, appVars>>

\* retrieve_weather(query, unit), or get_weather(location, unit), up to the
\* first request
BeginLookup(tool, blank, unit) ==
  /\ weather.pc \in {"idle", "done"}
  /\ LET started == [NoLookup EXCEPT !.tool = tool] IN
       IF tool /\ ~UnitKnown(unit)
       THEN weather' = [started EXCEPT !.pc = "done", !.raised = "ValueError",
                                       !.message = "Units must be either 'celsius' or 'fahrenheit'."]
       ELSE IF blank
       THEN weather' = [started EXCEPT
                          !.pc = "done",
                          !.raised = ToCaller(tool, Ended("WeatherLookupError", "")).raised,
                          !.message = "Please provide a city, address, or landmark to look up."]
       ELSE IF ~UnitKnown(unit)
       THEN weather' = [started EXCEPT !.pc = "done", !.raised = "WeatherLookupError",
                                       !.message = "Units must be either 'celsius' or 'fahrenheit'."]
       ELSE weather' = [started EXCEPT !.pc = "geocode", !.unit = normalize_unit(unit)]
  /\ WeatherFrame

\* one turn of the loop in _geocode_location: the next provider is asked
Geocode(answer) ==
  /\ weather.pc = "geocode"
  /\ LET i == Len(weather.called) + 1
         e == GeocodeProvider(answer)
         called == Append(weather.called, Providers[i])
     IN IF e.raised = "none"
        THEN weather' = [weather EXCEPT !.called = called, !.pc = "forecast"]
        ELSE IF CaughtAs(e) = ""
        THEN weather' = [weather EXCEPT !.called = called, !.pc = "done",
                                        !.raised = ToCaller(weather.tool, e).raised,
                                        !.message = ToCaller(weather.tool, e).message]
        ELSE IF i < Len(Providers)
        THEN weather' = [weather EXCEPT !.called = called, !.last_error = CaughtAs(e)]
        ELSE weather' = [weather EXCEPT
                           !.called = called, !.last_error = CaughtAs(e), !.pc = "done",
                           !.raised = ToCaller(weather.tool, Ended("WeatherLookupError", "")).raised,
                           !.message = CaughtAs(e)]
  /\ WeatherFrame

\* _fetch_weather_forecast and the rest of retrieve_weather
Forecast(answer) ==
  /\ weather.pc = "forecast"
  /\ LookupEnds(
       CASE answer = "ok" -> Ended("none", "")
         [] answer = "http_error" ->
              Ended("WeatherLookupError", "The weather service returned an error response.")
         [] answer = "network_error" ->
              Ended("WeatherLookupError", "Unable to contact the weather service at the moment.")
         [] answer = "not_json" -> Ended("JSONDecodeError", "")
         [] OTHER ->
              Ended("WeatherLookupError",
                    "Weather data is currently unavailable for that location."))
  /\ WeatherFrame

NextWeather ==
  \/ \E tool \in BOOLEAN, blank \in BOOLEAN, unit \in UnitInputs : BeginLookup(tool, blank, unit)
  \/ \E answer \in GeocodeResponses : Geocode(answer)
  \/ \E answer \in ForecastResponses : Forecast(answer)

SpecWeather == Init /\ [][NextWeather]_vars

\* the messages of weather.py
DomainMessages ==
  {"Please provide a city, address, or landmark to look up.",
   "Units must be either 'celsius' or 'fahrenheit'.",
   "The weather service returned an error response.",
   "Unable to contact the weather service at the moment.",
   "Weather data is currently unavailable for that location.",
   "The geocoding service returned an error response.",
   "Unable to contact the geocoding service at the moment.",
   "I couldn't find that location. Try another nearby city or landmark.",
   "The location data returned from the geocoder was incomplete."}

\* C19 (as claimed): a lookup that fails ends, for the caller of
\* retrieve_weather, with a WeatherLookupError carrying one of the domain
\* messages, and for the caller of get_weather with that message in the
\* ValueError the tool raises; no other exception leaves either.
C19_OnlyDomainErrors ==
  (weather.pc = "done" /\ weather.raised # "none") =>
    /\ weather.raised = (IF weather.tool THEN "ValueError" ELSE "WeatherLookupError")
    /\ weather.message \in DomainMessages


\* the departure and arrival times of the segments of a profile
SegmentTimes(profile) ==
  [i \in DOMAIN profile.segments |->
     <<profile.segments[i].departure_time, profile.segments[i].arrival_time>>]
\* the assistant messages among the events of the last action
MessagesOf(yielded) == SelectSeq(yielded, LAMBDA e : e.item = "assistant_message")

\* C18: a rebook.select_option action with a dict payload raises nothing.
\* When flight_number or option_id is missing it yields no event; when
\* option_id is "keep" it yields exactly one event, an assistant message,
\* and leaves the stored profiles and thread items as they were; otherwise,
\* when the flight is not on the itinerary, it yields exactly one assistant
\* message, whose text is that of the ValueError, and the segment times and
\* the timeline of the thread's profile are what they were before.
C18_RebookErrorsCaught ==
  [][(/\ ActionStep
      /\ actLast'.server = "customer-support"
      /\ actLast'.type = REBOOK_SELECT_ACTION_TYPE
      /\ actLast'.payload.shape = "dict") =>
       LET t == actLast'.thread
           flight_number == Get(actLast'.payload, "flight_number", NoStr)
           option_id == Get(actLast'.payload, "option_id", NoStr)
       IN /\ actLast'.raised = "none"
          /\ (flight_number \in {NoStr, <<>>} \/ option_id = NoStr) =>
               /\ actLast'.events = <<>>
               /\ UNCHANGED <<profiles, threadItems>>
          /\ (flight_number \notin {NoStr, <<>>} /\ option_id = Keep) =>
               /\ Len(actLast'.events) = 1
               /\ Len(MessagesOf(actLast'.events)) = 1
               /\ UNCHANGED <<profiles, threadItems>>
          /\ (/\ flight_number \notin {NoStr, <<>>}
              /\ option_id \notin {NoStr, Keep}
              /\ _find_segment(ProfileOf(t), flight_number) = 0) =>
               /\ Len(MessagesOf(actLast'.events)) = 1
               /\ MessagesOf(actLast'.events)[1].text =
                    Text("Flight is not on the customer's itinerary.", <<flight_number>>)
               /\ SegmentTimes(profiles'[t]) = SegmentTimes(ProfileOf(t))
               /\ profiles'[t].timeline = ProfileOf(t).timeline
               /\ UNCHANGED threadItems]_vars

\* a rebooking of flight ZZ999, which is not on the itinerary, was
\* dispatched after an action that had changed the thread's profile, and
\* ended with its message and the profile effect
C18_Witness ==
  /\ actLast.server = "customer-support"
  /\ actLast.type = REBOOK_SELECT_ACTION_TYPE
  /\ actLast.payload = Rebook(<<"Z","Z","9","9","9">>, <<"o","p","t","-","1">>)
  /\ actLast.raised = "none"
  /\ Len(actLast.events) = 2
  /\ ndisp = 2
  /\ Len(profiles[actLast.thread].timeline) > Len(DefaultProfile.timeline)


(***************************************************************************)
(* SpecKeyed: the two keyed stores side by side, CatStore under load and   *)
(* mutate calls of both callers and AirlineStateManager under get_profile  *)
(* and add_checked_bag, on both thread ids.                                *)
(***************************************************************************)
KeyedCalls ==
  {[op |-> "load", key |-> k, mut |-> NoMutator] : k \in Keys}
    \cup {[op |-> "mutate", key |-> k, mut |-> Mutator("incr", <<>>)] : k \in Keys}

StartKeyed(p) ==
  /\ \E c \in KeyedCalls : ncalls < MaxCalls /\ InOrder(p) /\ Start(p, c)
  /\ UNCHANGED reqVars

NextKeyed ==
  \/ \E p \in Procs : StartKeyed(p) \/ StoreStep(p)
  \/ \E t \in Keys : GetProfile(t) \/ AddBag(t)

SpecKeyed == Init /\ [][NextKeyed]_vars

\* every key of the CatStore has an object of its own: it is live, stored
\* under no other key, and no caller holds it as a snapshot
KeyedDistinct ==
  \A a \in Keys :
    states[a] # NoRef =>
      /\ heap[states[a]] # Free
      /\ \A b \in Keys \ {a} : states[b] # states[a]
      /\ \A p \in Procs : result[p] # states[a]

\* a step leaves the entity of key b alone unless it is the _ensure that
\* creates it or the mutator of a call on b; _ensure on an absent key stores a
\* new default CatState in a free place; a stored profile is never removed,
\* changes only in a call on its own thread id, and starts as the default one
KeyedFrame ==
  /\ \A b \in Keys :
       \/ /\ states'[b] = states[b]
          /\ states[b] # NoRef => heap'[states[b]] = heap[states[b]]
       \/ \E p \in Procs :
            /\ call[p].key = b
            /\ pc'[p] # pc[p]
            /\ pc[p] = "write" \/ (pc[p] = "ensure" /\ states[b] = NoRef)
  /\ \A p \in Procs :
       (pc[p] = "ensure" /\ pc'[p] # pc[p] /\ states[call[p].key] = NoRef) =>
         /\ states'[call[p].key] # NoRef
         /\ heap[states'[call[p].key]] = Free
         /\ heap'[states'[call[p].key]] = NewCatState(now)
  /\ \A t \in Keys :
       /\ profiles[t] # NoProfile => profiles'[t] # NoProfile
       /\ profiles'[t] # profiles[t] => airLast'.thread = t
       /\ (profiles[t] = NoProfile /\ profiles'[t] # NoProfile) =>
            airLast'.before = DefaultProfile

TaskOps == {"add_checked_bag", "get_profile"}
TaskFrame == UNCHANGED <<now, cat, storeVars, reqVars, threadItems, actLast, ndisp, weather,
                         selects, assets, facts, ad, metro, pager>>

\* calls scheduled and not yet run
Scheduled == {p \in Procs : tasks.pos[p] = "scheduled"}

\* a caller's call becomes ready to run
ScheduleTask(p, op, thread_id) ==
  /\ tasks.pos[p] = "idle"
  /\ airCount + Cardinality(Scheduled) < MaxAirOps
  /\ tasks' = [tasks EXCEPT !.pos[p] = "scheduled", !.op[p] = op, !.thread[p] = thread_id]
  /\ UNCHANGED airVars
  /\ TaskFrame

\* add_checked_bag: state_manager.add_bag, then state_manager.get_profile
RunAddCheckedBag(p) ==
  /\ tasks.pos[p] = "scheduled" /\ tasks.op[p] = "add_checked_bag"
  /\ LET t == tasks.thread[p] IN
       /\ profiles' = [profiles EXCEPT ![t] = add_bag(ProfileOf(t)).profile]
       /\ airLast' = AirCall("add_bag", t, ProfileOf(t), "none")
       /\ tasks' = [tasks EXCEPT
                      !.pos[p] = "idle",
                      !.returned[t] = @ + 1,
                      !.overlapped = @ \/ \E q \in Scheduled \ {p} : tasks.thread[q] = t]
  /\ airCount' = airCount + 1
  /\ UNCHANGED airChecks
  /\ TaskFrame

\* get_profile as respond calls it
RunGetProfile(p) ==
  /\ tasks.pos[p] = "scheduled" /\ tasks.op[p] = "get_profile"
  /\ LET t == tasks.thread[p] IN
       /\ profiles' = [profiles EXCEPT ![t] = ProfileOf(t)]
       /\ airLast' = AirCall("get_profile", t, ProfileOf(t), "none")
       /\ tasks' = [tasks EXCEPT
                      !.pos[p] = "idle",
                      !.overlapped = @ \/ \E q \in Scheduled \ {p} : tasks.thread[q] = t]
  /\ airCount' = airCount + 1
  /\ UNCHANGED airChecks
  /\ TaskFrame

NextBags ==
  \E p \in Procs :
    \/ \E op \in TaskOps, t \in Keys : ScheduleTask(p, op, t)
    \/ RunAddCheckedBag(p)
    \/ RunGetProfile(p)

SpecBags == Init /\ [][NextBags]_vars

\* C21: whatever the order in which scheduled calls run, a thread's profile
\* counts one bag and holds one more timeline entry per add_bag call that
\* has returned on that thread; a thread id no add_bag has returned on has
\* no profile or the default one.
C21_AddBagAtomic ==
  \A t \in Keys :
    IF profiles[t] = NoProfile
    THEN tasks.returned[t] = 0
    ELSE /\ profiles[t].bags_checked = DefaultProfile.bags_checked + tasks.returned[t]
         /\ Len(profiles[t].timeline) = Len(DefaultProfile.timeline) + tasks.returned[t]
         /\ tasks.returned[t] = 0 => profiles[t] = DefaultProfile

\* two calls on a new thread id were scheduled together; both have returned
\* and both bags are counted
C21_Witness ==
  /\ tasks.overlapped
  /\ tasks.returned["thr_a"] = 2
  /\ profiles["thr_a"] # NoProfile
  /\ profiles["thr_a"].bags_checked = 2


(***************************************************************************)
(* AdAssetStore (ad_assets.py).  An asset is its id, its text fields as    *)
(* one `content` value, and its images; `assets.stored` is _assets (an id  *)
(* without asset maps to NoAsset) and `assets.order` is _order.  create    *)
(* and append_image hold the store's lock throughout, so each is one step. *)
(***************************************************************************)
MaxAssetOps == 3
\* ids AdAsset's default factory can produce: f"asset_{uuid4().hex[:8]}"
GeneratedIds == {"asset_1", "asset_2"}
\* the asset_id argument: None, the empty string, a generated-looking id, another id
AssetIdArgs == {"None", "", "asset_1", "custom"}
AssetContents == {"spring", "autumn"}
Images == {"img_1", "img_2"}
\* the images argument: None, or a list
ImagesArgs ==
  {[given |-> FALSE, list |-> <<>>], [given |-> TRUE, list |-> <<>>],
   [given |-> TRUE, list |-> <<"img_1">>]}

Range(seq) == {seq[i] : i \in DOMAIN seq}
IsStored(asset_id) == asset_id \in AssetIds /\ assets.stored[asset_id] # NoAsset

\* _order after create's `self._order.append` with no look at the list
AppendAlways(order, id) == Append(order, id)
\* `if asset.id not in self._order: self._order.append(asset.id)`
AppendIfAbsent(order, id) == IF id \in Range(order) THEN order ELSE Append(order, id)

AssetFrame == UNCHANGED <<coreVars, tasks, selects, facts, ad, metro, pager>>

\* AdAssetStore.create on the store `a`; `generated` is the id the dataclass
\* draws for a new asset
CreateIn(a, content, images, asset_id, generated) ==
  IF asset_id \notin {"None", ""} /\ asset_id \in AssetIds /\ a.stored[asset_id] # NoAsset
  THEN [a EXCEPT
          !.stored[asset_id] =
             [@ EXCEPT !.content = content,
                       !.images = IF images.given THEN images.list ELSE @],
          !.count = @ + 1,
          !.last = [op |-> "create", asset_id |-> asset_id, given |-> images.given,
                    content |-> content, result |-> asset_id]]
  ELSE LET id == IF asset_id \notin {"None", ""} THEN asset_id ELSE generated IN
         [a EXCEPT
            !.stored[id] = [id |-> id, content |-> content, images |-> images.list],
            !.order = AppendIfAbsent(@, id),
            !.count = @ + 1,
            !.last = [op |-> "create", asset_id |-> asset_id, given |-> images.given,
                      content |-> content, result |-> id]]

AssetCreate(content, images, asset_id, generated) ==
  /\ assets.count < MaxAssetOps
  /\ assets' = CreateIn(assets, content, images, asset_id, generated)
  /\ AssetFrame

\* AdAssetStore.append_image on the store `a`
AppendImageIn(a, asset_id, image) ==
  IF ~(asset_id \in AssetIds /\ a.stored[asset_id] # NoAsset)
  THEN [a EXCEPT
          !.count = @ + 1,
          !.last = [op |-> "append_image", asset_id |-> asset_id, given |-> TRUE,
                    content |-> "", result |-> "None"]]
  ELSE [a EXCEPT
          !.stored[asset_id].images = IF image \in Range(@) THEN @ ELSE Append(@, image),
          !.count = @ + 1,
          !.last = [op |-> "append_image", asset_id |-> asset_id, given |-> TRUE,
                    content |-> "", result |-> asset_id]]

AssetAppendImage(asset_id, image) ==
  /\ assets.count < MaxAssetOps
  /\ assets' = AppendImageIn(assets, asset_id, image)
  /\ AssetFrame

\* AdAssetStore.list_saved
AssetListSaved == [i \in DOMAIN assets.order |-> assets.stored[assets.order[i]]]

NextAssets ==
  \/ \E content \in AssetContents, images \in ImagesArgs, asset_id \in AssetIdArgs,
        generated \in GeneratedIds : AssetCreate(content, images, asset_id, generated)
  \/ \E asset_id \in AssetIds, image \in Images : AssetAppendImage(asset_id, image)

SpecAssets == Init /\ [][NextAssets]_vars

\* _order holds the stored ids, each once, and list_saved returns every
\* stored asset once, each under its own id
OrderIsStored ==
  /\ Range(assets.order) = {k \in AssetIds : assets.stored[k] # NoAsset}
  /\ \A i, j \in DOMAIN assets.order : assets.order[i] = assets.order[j] => i = j
  /\ \A k \in AssetIds :
       assets.stored[k] # NoAsset =>
         /\ assets.stored[k].id = k
         /\ Cardinality({i \in DOMAIN AssetListSaved : AssetListSaved[i].id = k}) = 1

\* a call keeps the ids already in _order where they are; create with a
\* stored id rewrites the fields of that asset only and keeps its images
\* when images is None; create with an id not stored puts a new asset under
\* that id, last in _order
CreateUpserts ==
  /\ assets.order = SubSeq(assets'.order, 1, Len(assets.order))
  /\ (assets'.count # assets.count /\ assets'.last.op = "create"
        /\ assets'.last.asset_id \notin {"None", ""}) =>
       LET id == assets'.last.asset_id IN
         /\ assets'.last.result = id
         /\ assets'.stored[id].id = id
         /\ assets'.stored[id].content = assets'.last.content
         /\ \A k \in AssetIds \ {id} : assets'.stored[k] = assets.stored[k]
         /\ IF IsStored(id)
            THEN /\ assets'.order = assets.order
                 /\ ~assets'.last.given => assets'.stored[id].images = assets.stored[id].images
            ELSE assets'.order = Append(assets.order, id)

\* C22: after any calls of create and append_image, _order contains each
\* stored asset id exactly once and no other id, list_saved returns every
\* stored asset once in the order of first insertion, create with a stored
\* asset_id updates that asset in place and create with an asset_id not
\* stored stores a new asset under that id.
C22_AssetOrder == []OrderIsStored /\ [][CreateUpserts]_vars

\* a new asset drew the id of an asset already stored, after another asset
\* had been stored behind it
C22_Witness ==
  /\ assets.last.op = "create"
  /\ assets.last.asset_id = "None"
  /\ assets.last.result = "asset_1"
  /\ assets.order = <<"asset_1", "custom">>
  /\ assets.count = 3


(***************************************************************************)
(* FactStore (facts.py).  `facts.stored` is _facts (an id without fact     *)
(* maps to NoFact), `facts.order` is _order; created_at is the number of   *)
(* the create call.  Every method holds the store's lock throughout, so    *)
(* each is one step.  A new fact's id, f"fact_{uuid4().hex[:8]}", is any   *)
(* id no stored fact has.                                                  *)
(***************************************************************************)
MaxFactOps == 4
PENDING == "pending"
SAVED == "saved"
DISCARDED == "discarded"
FactTexts == {"likes tea", "has a dog"}
\* the fact_id argument: an id the store may hold, or one it never holds
FactIdArgs == FactIds \cup {"fact_x"}

IsFact(fact_id) == fact_id \in FactIds /\ facts.stored[fact_id] # NoFact
FactFrame == UNCHANGED <<coreVars, tasks, selects, assets, ad, metro, pager>>

\* FactStore.create
FactCreate(text) ==
  /\ facts.count < MaxFactOps
  /\ \E id \in FactIds :
       /\ ~IsFact(id)
       /\ facts' = [facts EXCEPT
            !.stored[id] = [id |-> id, text |-> text, status |-> PENDING,
                            created_at |-> Len(facts.order) + 1],
            !.order = Append(@, id),
            !.count = @ + 1,
            !.last = [op |-> "create", fact_id |-> "None", result |-> id]]
  /\ FactFrame

\* mark_saved and discard: the status goes to `status`, None for an unknown id
FactSetStatus(op, fact_id, status) ==
  /\ facts.count < MaxFactOps
  /\ IF ~IsFact(fact_id)
     THEN facts' = [facts EXCEPT
            !.count = @ + 1,
            !.last = [op |-> op, fact_id |-> fact_id, result |-> "None"]]
     ELSE facts' = [facts EXCEPT
            !.stored[fact_id].status = status,
            !.count = @ + 1,
            !.last = [op |-> op, fact_id |-> fact_id, result |-> fact_id]]
  /\ FactFrame

\* FactStore.mark_saved
FactMarkSaved(fact_id) == FactSetStatus("mark_saved", fact_id, SAVED)
\* FactStore.discard
FactDiscard(fact_id) == FactSetStatus("discard", fact_id, DISCARDED)

\* a filter that lets every fact through that is no longer pending
FactNotPending(fact) == fact.status # PENDING
\* the filter of list_saved
FactIsSaved(fact) == fact.status = SAVED

\* FactStore.list_saved
FactListSaved ==
  LET all == [i \in DOMAIN facts.order |-> facts.stored[facts.order[i]]]
  IN SelectSeq(all, FactIsSaved)

NextFacts ==
  \/ \E text \in FactTexts : FactCreate(text)
  \/ \E fact_id \in FactIdArgs : FactMarkSaved(fact_id)
  \/ \E fact_id \in FactIdArgs : FactDiscard(fact_id)

SpecFacts == Init /\ [][NextFacts]_vars

\* list_saved holds the saved facts, each once, oldest first
ListIsSaved ==
  LET listed == FactListSaved IN
    /\ {listed[i].id : i \in DOMAIN listed} =
         {k \in FactIds : facts.stored[k].status = SAVED}
    /\ \A i, j \in DOMAIN listed :
         /\ listed[i].id = listed[j].id => i = j
         /\ i < j => listed[i].created_at < listed[j].created_at
    /\ \A i \in DOMAIN listed : listed[i].status # DISCARDED

\* mark_saved or discard of an id the store does not hold returns None and
\* leaves the facts and their order as they were
UnknownIdNoOp ==
  (facts'.count # facts.count /\ facts'.last.op \in {"mark_saved", "discard"}
     /\ ~IsFact(facts'.last.fact_id)) =>
    /\ facts'.last.result = "None"
    /\ facts'.stored = facts.stored
    /\ facts'.order = facts.order

MaxSelects == 2
SelectThread == "thr_a"
SelectLegs == {Outbound, <<"r","e","t","u","r","n">>}
SelectFrame ==
  UNCHANGED <<now, cat, storeVars, reqVars, airLast, airChecks, airCount, actLast, ndisp,
              weather, tasks, assets, facts, ad, metro, pager>>

\* record_booking_hold and record_flight_booking as the handler calls them
\* for the option `selected` of the parsed payload
BookSelected(profile, parsed, selected, seat) ==
  LET request == parsed.request
      origin == _sanitize_airport_code(request.origin)
      destination == _sanitize_airport_code(request.destination)
      depart_label == request.depart_date \o <<" ">> \o selected.from_airport
                        \o <<">">> \o selected.to_airport \o <<" ">> \o selected.dep_time
      return_label == request.return_date \o <<" ">> \o request.destination
                        \o <<">">> \o request.origin
      hold == record_booking_hold(profile, destination, depart_label, return_label)
  IN record_flight_booking(hold.profile, _generate_flight_number(parsed.leg),
                           request.depart_date, origin, destination,
                           selected.dep_time, selected.arr_time, seat)

\* from the start of the handler to its first yield: the payload is parsed,
\* the widget is looked up, the hold and the booking are recorded and the
\* "Scheduled" message is yielded
SelectBegin(p, leg, seat) ==
  /\ selects.pos[p] \in {"idle", "done"}
  /\ selects.started < MaxSelects
  /\ LET parsed == _parse_flight_select_payload(SelectFlight(FlightMorning, leg))
         options == generate_flight_options(parsed.request)
         hits == {i \in DOMAIN options : options[i].id = parsed.id}
         selected == options[CHOOSE i \in hits : \A j \in hits : i <= j]
         profile == ProfileOf(SelectThread)
     IN IF is_widget_consumed(profile, WidgetId)
        THEN /\ profiles' = [profiles EXCEPT ![SelectThread] = profile]
             /\ selects' = [selects EXCEPT !.pos[p] = "done", !.leg[p] = leg,
                                           !.events[p] = 0, !.consumed[p] = TRUE,
                                           !.started = @ + 1]
        ELSE /\ profiles' = [profiles EXCEPT
                               ![SelectThread] = BookSelected(profile, parsed, selected, seat).profile]
             /\ selects' = [selects EXCEPT !.pos[p] = "message", !.leg[p] = leg,
                                           !.events[p] = 1, !.consumed[p] = FALSE,
                                           !.started = @ + 1, !.bookings = @ + 1]
  /\ UNCHANGED threadItems
  /\ SelectFrame

\* resumed after the message: the widget locked to the option is built and
\* yielded as ThreadItemUpdated
SelectLock(p) ==
  /\ selects.pos[p] = "message"
  /\ selects' = [selects EXCEPT !.pos[p] = "update", !.events[p] = @ + 1]
  /\ UNCHANGED <<profiles, threadItems>>
  /\ SelectFrame

\* resumed after the update: mark_widget_consumed, then the return options
\* of an outbound leg, the hidden context item and the profile effect
SelectMark(p) ==
  /\ selects.pos[p] = "update"
  /\ profiles' = [profiles EXCEPT
                    ![SelectThread] = mark_widget_consumed(profiles[SelectThread], WidgetId)]
  /\ threadItems' = [threadItems EXCEPT
                       !["customer-support"] =
                          Append(@, HiddenItem(SelectThread,
                                               Text("WIDGET_ACTION flight.select payload",
                                                    <<WidgetId, FlightMorning, selects.leg[p]>>)))]
  /\ selects' = [selects EXCEPT
                   !.pos[p] = "done",
                   !.events[p] = @ + (IF selects.leg[p] = Outbound THEN 3 ELSE 1)]
  /\ SelectFrame

NextSelect ==
  \E p \in Procs :
    \/ \E leg \in SelectLegs, seat \in _pick_default_seat(SearchRequest.cabin) :
         SelectBegin(p, leg, seat)
    \/ SelectLock(p)
    \/ SelectMark(p)

SpecSelect == Init /\ [][NextSelect]_vars

\* C24 (as claimed): whatever the interleaving of the flight.select actions
\* sent from one widget, record_flight_booking has run at most once, and an
\* action that found the widget consumed when it started has yielded no
\* event.
C24_OneBookingPerWidget ==
  /\ selects.bookings <= 1
  /\ \A p \in Procs : selects.consumed[p] => (selects.pos[p] = "done" /\ selects.events[p] = 0)


(***************************************************************************)
(* SpecAd: AdCreativeServer (marketing-assets chat.py).  `ad.thread` is    *)
(* the metadata of the thread object a respond run works on, `ad.local`    *)
(* the copy respond takes before the agent runs, `ad.stored` the metadata  *)
(* of the thread as save_thread last stored it.  The agent calls the tools *)
(* save_ad_asset and generate_ad_image during the run, one at a time;      *)
(* `ad.gen` is the retry loop of generate_ad_image.                        *)
(***************************************************************************)
MaxTurns == 2
MaxToolCalls == 2
MAX_IMAGE_ATTEMPTS == 3
\* a generate_ad_image that allows itself one more attempt
OneMoreAttempt == MAX_IMAGE_ATTEMPTS + 1
\* attempts generate_ad_image makes before it gives up
AttemptLimit == MAX_IMAGE_ATTEMPTS

\* how an attempt can go: all is well; images.generate raises; it returns
\* no data; the data has no b64_json; stream_widget raises
AttemptOutcomes == {"ok", "api_error", "no_data", "bad_payload", "stream_error"}
ResponseIds == {"None", "resp_1"}

AdFrame == UNCHANGED <<coreVars, tasks, selects, facts, metro, pager>>

\* list(dict.fromkeys(seq)): the first occurrence of every element, in order
Dedupe(seq) == SelectSeq([i \in DOMAIN seq |->
                            IF \E j \in 1..(i - 1) : seq[j] = seq[i] THEN "" ELSE seq[i]],
                         LAMBDA x : x # "")

\* respond up to the agent run: the thread comes from the store, and
\* `metadata = dict(thread.metadata)` is taken
RespondBegin ==
  /\ ad.pc \in {"idle", "finished"}
  /\ ad.turns < MaxTurns
  /\ ad' = [ad EXCEPT !.pc = "running", !.thread = ad.stored, !.local = ad.stored,
                      !.turns = @ + 1, !.gen = NoGeneration]
  /\ UNCHANGED assets
  /\ AdFrame

\* a tool can be called: the run is on and no other tool is
CanCallTool == ad.pc = "running" /\ ad.gen.pos # "loop" /\ ad.ntools < MaxToolCalls

\* the save_ad_asset tool; an empty `content` stands for a blank ad field
SaveAdAsset(content, images, asset_id, generated) ==
  /\ CanCallTool
  /\ IF content = ""
     THEN /\ ad' = [ad EXCEPT !.ntools = @ + 1]
          /\ UNCHANGED assets
     ELSE LET pending_images == ad.thread.pending_images
              latest == IF asset_id # "None" THEN asset_id ELSE ad.thread.latest_asset_id
              merged == IF pending_images # <<>> THEN Dedupe(images \o pending_images)
                        ELSE images
              created == CreateIn(assets, content, [given |-> merged # <<>>, list |-> merged],
                                  latest, generated)
              metadata == [ad.thread EXCEPT
                             !.latest_asset_id = created.last.result,
                             !.pending_images = IF merged # <<>> THEN <<>> ELSE @]
          IN /\ assets' = created
             /\ ad' = [ad EXCEPT !.thread = metadata, !.stored = metadata, !.ntools = @ + 1,
                                 !.saved = created.last.result]
  /\ AdFrame

\* generate_ad_image up to its loop
GenerateBegin(has_key) ==
  /\ CanCallTool
  /\ ad' = [ad EXCEPT
              !.ntools = @ + 1,
              !.gen = IF has_key THEN [NoGeneration EXCEPT !.pos = "loop"]
                      ELSE [NoGeneration EXCEPT !.pos = "raised", !.status = "RuntimeError"]]
  /\ UNCHANGED assets
  /\ AdFrame

\* what a successful attempt writes: the image goes to the latest asset, or
\* to pending_images when the thread has none
Attached(image) ==
  LET latest == ad.thread.latest_asset_id
      updated == AppendImageIn(assets, latest, image)
      found == latest # "None" /\ updated.last.result # "None"
  IN [assets |-> IF latest # "None" THEN updated ELSE assets,
      metadata |-> IF found
                   THEN [ad.thread EXCEPT !.pending_images = <<>>]
                   ELSE [ad.thread EXCEPT !.pending_images = Append(@, image)]]

\* one turn of the loop of generate_ad_image
GenerateAttempt(how, image) ==
  /\ ad.gen.pos = "loop"
  /\ ad.gen.attempt < AttemptLimit
  /\ LET attempt == ad.gen.attempt + 1 IN
       IF how = "ok"
       THEN /\ assets' = Attached(image).assets
            /\ ad' = [ad EXCEPT
                        !.thread = Attached(image).metadata,
                        !.stored = Attached(image).metadata,
                        !.gen = [@ EXCEPT !.pos = "returned", !.attempt = attempt,
                                          !.calls = @ + 1, !.status = "generated",
                                          !.image = image]]
       ELSE /\ ad' = [ad EXCEPT
                        !.gen = [@ EXCEPT
                                   !.pos = IF attempt >= AttemptLimit THEN "raised" ELSE "loop",
                                   !.status = IF attempt >= AttemptLimit THEN "RuntimeError"
                                              ELSE "none",
                                   !.attempt = attempt, !.calls = @ + 1, !.failed = @ + 1]]
            /\ UNCHANGED assets
  /\ AdFrame

\* respond after the agent run: previous_response_id is recorded
RespondFinish(last_response_id) ==
  /\ ad.pc = "running" /\ ad.gen.pos # "loop"
  /\ IF last_response_id # "None"
     THEN LET metadata == [ad.local EXCEPT !.previous_response_id = last_response_id] IN
            ad' = [ad EXCEPT !.pc = "finished", !.thread = metadata, !.stored = metadata]
     ELSE ad' = [ad EXCEPT !.pc = "finished"]
  /\ UNCHANGED assets
  /\ AdFrame

NextAd ==
  \/ RespondBegin
  \/ \E content \in AssetContents \cup {""}, images \in {<<>>, <<"img_1">>},
        asset_id \in {"None", "custom"}, generated \in GeneratedIds :
       SaveAdAsset(content, images, asset_id, generated)
  \/ \E has_key \in BOOLEAN : GenerateBegin(has_key)
  \/ \E how \in AttemptOutcomes, image \in Images : GenerateAttempt(how, image)
  \/ \E last_response_id \in ResponseIds : RespondFinish(last_response_id)

SpecAd == Init /\ [][NextAd]_vars

\* C25 (as claimed): when respond finishes, the stored thread metadata still
\* has the latest_asset_id and the pending_images the tools wrote during the
\* run; and a generate_ad_image that succeeds while an asset saved by
\* save_ad_asset is stored puts its image on that asset.
C25_ToolMetadataKept ==
  [][/\ (ad.pc = "running" /\ ad'.pc = "finished") =>
          /\ ad'.stored.latest_asset_id = ad.thread.latest_asset_id
          /\ ad'.stored.pending_images = ad.thread.pending_images
     /\ (ad.gen.pos = "loop" /\ ad'.gen.pos = "returned" /\ ad.saved # "None") =>
          ad'.gen.image \in Range(assets'.stored[ad.saved].images)]_vars


\* the attempts of one generate_ad_image call, counted: while it loops every
\* call of the image model so far has failed and there were fewer than
\* MAX_IMAGE_ATTEMPTS; it returns "generated" right after its only
\* successful attempt; it raises RuntimeError without any call (no API key)
\* or after MAX_IMAGE_ATTEMPTS failures
AttemptsCounted ==
  /\ ad.gen.calls <= MAX_IMAGE_ATTEMPTS
  /\ ad.gen.pos = "loop" =>
       ad.gen.failed = ad.gen.calls /\ ad.gen.calls < MAX_IMAGE_ATTEMPTS
  /\ ad.gen.pos = "returned" =>
       ad.gen.status = "generated" /\ ad.gen.failed = ad.gen.calls - 1
  /\ ad.gen.pos = "raised" =>
       /\ ad.gen.status = "RuntimeError"
       /\ ad.gen.calls = 0 \/ (ad.gen.calls = MAX_IMAGE_ATTEMPTS /\ ad.gen.failed = MAX_IMAGE_ATTEMPTS)

\* every step of the loop is one more call of the image model, and an
\* invocation that has returned or raised makes no further one
AttemptsAdvance ==
  /\ (ad.gen.pos = "loop" /\ ad'.gen # ad.gen) => ad'.gen.calls = ad.gen.calls + 1
  /\ (ad.gen.pos \in {"returned", "raised"} /\ ad'.ntools = ad.ntools
        /\ ad'.turns = ad.turns) =>
       ad'.gen = ad.gen

\* C26: generate_ad_image calls the image model at most MAX_IMAGE_ATTEMPTS
\* (3) times, one more call at every turn of its loop; it returns status
\* "generated" after the first attempt without error, tries again only
\* after a failed attempt and raises RuntimeError after the third failure
\* in a row.
C26_BoundedAttempts == []AttemptsCounted /\ [][AttemptsAdvance]_vars

\* a generate_ad_image call has raised after three failed attempts
C26_Witness ==
  /\ ad.gen.pos = "raised"
  /\ ad.gen.calls = 3
  /\ ad.gen.failed = 3

(***************************************************************************)
(* SpecTimeline: any sequence of the ten mutating manager calls on two     *)
(* threads, with arguments the calls accept and arguments they refuse.     *)
(***************************************************************************)
\* cancel_trip: every segment is cancelled
cancel_trip(profile) ==
  LET cancelled == [profile EXCEPT !.segments =
                      [i \in DOMAIN profile.segments |->
                         [profile.segments[i] EXCEPT !.status = "Cancelled"]]]
  IN ReturnedValue(log(cancelled, "warning", "Trip cancelled at customer request.", <<>>),
                   Text("The reservation has been cancelled.", <<>>))

\* request_assistance
request_assistance(profile, note) ==
  ReturnedValue(log([profile EXCEPT !.special_assistance = note],
                    "info", "Special assistance noted", <<note>>),
                Text("Assistance request recorded.", <<>>))

\* record_trip_dates
record_trip_dates(profile, origin, destination, depart_date, return_date) ==
  ReturnedValue(log(profile, "info", "Booking request",
                    <<origin, destination, depart_date, return_date>>),
                Text("I'll check flights", <<origin, destination, depart_date, return_date>>))

TimelineSeats == {<<"1","c">>, <<"c","1">>}
TimelineFlights == {OA476, <<"Z","Z","9","9","9">>}
Veg == <<"v","e","g">>
Oct3 == <<"1","0","-","0","3">>
Oct9 == <<"1","0","-","0","9">>
NineAm == <<"0","9",":","0","0">>
FivePm == <<"1","7",":","0","0">>

\* a manager call that checks no argument
Call(thread_id, op, r) ==
  /\ Apply(thread_id, op, r)
  /\ airChecks' = NoChecks

NextTimeline ==
  \E t \in Keys :
    \/ GetProfile(t)
    \/ \E f \in TimelineFlights, seat \in TimelineSeats : ChangeSeat(t, f, seat)
    \/ Call(t, "cancel_trip", cancel_trip(ProfileOf(t)))
    \/ AddBag(t)
    \/ Call(t, "set_meal", set_meal(ProfileOf(t), Veg))
    \/ Call(t, "request_assistance", request_assistance(ProfileOf(t), Veg))
    \/ Call(t, "record_upgrade", record_upgrade(ProfileOf(t), Veg, Oct3))
    \/ Call(t, "record_booking_hold", record_booking_hold(ProfileOf(t), JFK, Oct3, Oct9))
    \/ Call(t, "record_flight_booking",
            record_flight_booking(ProfileOf(t), OA477, Oct3, SFO, JFK, NineAm, FivePm, <<"T","B","D">>))
    \/ Call(t, "record_trip_dates", record_trip_dates(ProfileOf(t), SFO, JFK, Oct3, Oct9))
    \/ \E f \in TimelineFlights :
         Call(t, "rebook_segment", rebook_segment(ProfileOf(t), f, NineAm, FivePm, Veg))

SpecTimeline == Init /\ [][NextTimeline]_vars

\* the timeline of a thread after the step
TimelineAfter(t) ==
  IF profiles'[t] = NoProfile THEN DefaultProfile.timeline ELSE profiles'[t].timeline

\* C27: every successful mutating call of the manager puts exactly one entry
\* at index 0 of the thread's timeline and leaves the entries already there
\* as they were, in their order; a call that raises, a first get_profile and
\* every call on another thread leave the timeline as it was
C27_TimelineAppendsAtFront ==
  [][\A t \in Keys :
       IF t = airLast'.thread /\ airLast'.op # "get_profile" /\ airLast'.outcome = "none"
       THEN /\ Len(TimelineAfter(t)) = Len(ProfileOf(t).timeline) + 1
            /\ Tail(TimelineAfter(t)) = ProfileOf(t).timeline
       ELSE TimelineAfter(t) = ProfileOf(t).timeline]_vars

\* a trip rebooked and then cancelled: two entries above the three the
\* default profile starts with, the later one first
C27_Witness ==
  /\ airLast.op = "cancel_trip"
  /\ profiles["thr_a"] # NoProfile
  /\ Len(profiles["thr_a"].timeline) = 5
  /\ profiles["thr_a"].timeline[1].entry = "Trip cancelled at customer request."
  /\ profiles["thr_a"].timeline[2].entry = "Rebooked"
  /\ profiles["thr_a"].timeline[3].entry = "Added note: enjoys single-origin drip coffee."


(***************************************************************************)
(* SpecMetro: the add_station tool called with any of a few names and line *)
(* ids, and the /map endpoint replacing the map.                           *)
(***************************************************************************)
MaxAdds == 2
SlugChars == LowerSet \cup Digits
RECURSIVE CollapseDashes(_)
CollapseDashes(s) ==
  IF Len(s) < 2 THEN s
  ELSE IF s[1] = "-" /\ s[2] = "-" THEN CollapseDashes(Tail(s))
  ELSE <<s[1]>> \o CollapseDashes(Tail(s))
RECURSIVE StripDashes(_)
StripDashes(s) ==
  IF s = <<>> THEN s
  ELSE IF s[1] = "-" THEN StripDashes(Tail(s))
  ELSE IF s[Len(s)] = "-" THEN StripDashes(SubSeq(s, 1, Len(s) - 1))
  ELSE s

\* _normalize_id: lower case, every run of other characters one "-", no
\* "-" at either end, "id" when nothing is left
_normalize_id(value) ==
  LET lowered == StrLower(value)
      dashed == [i \in DOMAIN lowered |-> IF lowered[i] \in SlugChars THEN lowered[i] ELSE "-"]
      slug == StripDashes(CollapseDashes(dashed))
  IN IF slug = <<>> THEN <<"i","d">> ELSE slug

\* an id made of the slug alone, whether or not a station has it
SlugAlone(station_lookup, station_name) == _normalize_id(station_name)

RECURSIVE NextCandidate(_, _, _)
NextCandidate(station_lookup, base, counter) ==
  LET candidate == base \o <<"-">> \o Decimal(counter) IN
    IF candidate \in DOMAIN station_lookup
    THEN NextCandidate(station_lookup, base, counter + 1)
    ELSE candidate

\* _next_station_id
_next_station_id(station_lookup, station_name) ==
  LET base == _normalize_id(station_name) IN
    IF base \in DOMAIN station_lookup THEN NextCandidate(station_lookup, base, 2) ELSE base

\* _get_coordinates_for_new_station: one step past the line's last station,
\* or one step before its first; from (0, 0) when the lookup has no such id
_get_coordinates_for_new_station(store, line, append) ==
  LET neighbour == IF append THEN line.stations[Len(line.stations)] ELSE line.stations[1]
      at == IF neighbour \in DOMAIN store.station_lookup
            THEN store.map.stations[store.station_lookup[neighbour]]
            ELSE [x |-> 0, y |-> 0]
      step == IF append THEN 1 ELSE 0 - 1
  IN IF line.orientation = "horizontal" THEN <<at.x + step, at.y>> ELSE <<at.x, at.y + step>>

\* the line add_station works on: 0 for None
FoundLine(store, line_id) ==
  IF line_id \in DOMAIN store.line_lookup THEN store.line_lookup[line_id]
  ELSE IF _normalize_id(line_id) \in DOMAIN store.line_lookup
       THEN store.line_lookup[_normalize_id(line_id)]
       ELSE 0

\* MetroMapStore.add_station: the store afterwards, the exception raised and
\* the id of the new station
add_station(store, station_name, line_id, append) ==
  LET l == FoundLine(store, line_id) IN
    IF l = 0 \/ (l # 0 /\ store.map.lines[l].stations = <<>>)
    THEN [store |-> store, raised |-> "ValueError", station_id |-> <<>>]
    ELSE
      LET line == store.map.lines[l]
          station_id == _next_station_id(store.station_lookup, station_name)
          xy == _get_coordinates_for_new_station(store, line, append)
          station == Station(station_id, station_name, xy[1], xy[2], <<line.id>>)
          stations == Append(store.map.stations, station)
          on_line == IF append THEN Append(line.stations, station_id)
                     ELSE <<station_id>> \o line.stations
      IN [store |-> [map |-> [stations |-> stations,
                              lines |-> [store.map.lines EXCEPT ![l].stations = on_line]],
                     station_lookup |->
                       [id \in DOMAIN store.station_lookup \cup {station_id} |->
                          IF id = station_id THEN Len(stations) ELSE store.station_lookup[id]],
                     line_lookup |-> store.line_lookup],
          raised |-> "none",
          station_id |-> station_id]

MetroFrame == UNCHANGED <<coreVars, tasks, selects, assets, facts, ad, pager>>

\* the add_station tool: the name is stripped and title-cased, the store is
\* called, and an exception of the store ends in a message to the user
AddStationTool(raw_name, line_id, append) ==
  LET station_name == StrTitle(StrStrip(raw_name))
      r == add_station(metro.store, station_name, line_id, append)
  IN /\ r.raised = "none" => metro.adds < MaxAdds
     /\ metro' = [store |-> r.store,
                  adds |-> IF r.raised = "none" THEN metro.adds + 1 ELSE metro.adds,
                  last |-> [op |-> "add_station", raised |-> r.raised,
                            station_name |-> station_name, line_id |-> line_id,
                            append |-> append, station_id |-> r.station_id]]
     /\ MetroFrame

\* POST /map: set_map replaces the map and rebuilds both lookups
SetMap(map) ==
  /\ metro.store.map # map
  /\ metro' = [metro EXCEPT !.store = MetroStoreOf(map),
                            !.last = [NoAddStation EXCEPT !.op = "set_map"]]
  /\ MetroFrame

StationNames == {<<" ","a"," ">>, <<"a","-","2">>, <<"!">>}
LineIds == {RedLine, <<"R","e","d">>, GreenLine, BlueLine}
PostedMaps == {ReferenceMap, MapWithEmptyLine, MapWithSharedId}

NextMetro ==
  \/ \E n \in StationNames, l \in LineIds, append \in BOOLEAN : AddStationTool(n, l, append)
  \/ \E m \in PostedMaps : SetMap(m)

SpecMetro == Init /\ [][NextMetro]_vars

StationIds(map) == {map.stations[i].id : i \in DOMAIN map.stations}
IdsDistinct(map) ==
  \A i, j \in DOMAIN map.stations : i # j => map.stations[i].id # map.stations[j].id
\* the lines of the map that line_id names, as given or normalized, and
\* that have a station
NamedLines(map, line_id) ==
  {i \in DOMAIN map.lines : /\ map.lines[i].id \in {line_id, _normalize_id(line_id)}
                            /\ map.lines[i].stations # <<>>}
\* the ids a station called `name` may get: its slug, or the slug with a
\* suffix -k where the slug and every smaller suffix are taken
IsNextIdFor(id, name, taken) ==
  LET base == _normalize_id(name) IN
    \/ id = base
    \/ /\ base \in taken
       /\ \E k \in 2..(Cardinality(taken) + 2) :
            /\ id = base \o <<"-">> \o Decimal(k)
            /\ \A h \in 2..(k - 1) : (base \o <<"-">> \o Decimal(h)) \in taken

\* what an add_station that returned has done to the store
StationAdded ==
  LET before == metro.store.map
      after == metro'.store.map
      made == metro'.last
      added == after.stations[Len(after.stations)]
  IN /\ NamedLines(before, made.line_id) # {}
     /\ Len(after.stations) = Len(before.stations) + 1
     /\ SubSeq(after.stations, 1, Len(before.stations)) = before.stations
     /\ added.id = made.station_id
     /\ added.id \notin StationIds(before)
     /\ IsNextIdFor(added.id, made.station_name, StationIds(before))
     /\ \E l \in NamedLines(before, made.line_id) :
          /\ after.lines[l].stations =
               IF made.append THEN Append(before.lines[l].stations, added.id)
               ELSE <<added.id>> \o before.lines[l].stations
          /\ after.lines = [before.lines EXCEPT ![l].stations = after.lines[l].stations]
     /\ DOMAIN metro'.store.station_lookup = StationIds(after)
     /\ IdsDistinct(before) => IdsDistinct(after)

\* C28: add_station on a line that exists and has a station adds exactly one
\* station, with an id no station had (the slug of the name, or the slug
\* with the first free suffix -2, -3, ...), last on the line when append is
\* true and first when it is false; the id lookup holds exactly the ids of
\* map.stations and distinct ids stay distinct; for a line that does not
\* exist or has no station it raises ValueError and the store is as before
C28_AddStation ==
  [][metro'.last.op = "add_station" =>
       /\ metro'.last.raised = "none" => StationAdded
       /\ metro'.last.raised # "none" =>
            /\ metro'.last.raised = "ValueError"
            /\ NamedLines(metro.store.map, metro'.last.line_id) = {}
            /\ metro'.store = metro.store]_vars

\* a second station called "A" put first on the red line: the map already
\* had "a" and "a-2", so it is "a-3"
C28_Witness ==
  /\ metro.last.op = "add_station"
  /\ metro.last.raised = "none"
  /\ ~metro.last.append
  /\ metro.last.station_id = <<"a","-","3">>
  /\ metro.store.map.lines[1].stations[1] = <<"a","-","3">>
  /\ <<"a","-","2">> \in StationIds(metro.store.map)
  /\ IdsDistinct(metro.store.map)

(***************************************************************************)
(* SpecPager: rows are added to a thread with any created_at, then a       *)
(* client pages through them with a fixed limit and order.                 *)
(***************************************************************************)
MaxRows == 3
MaxLimit == 2
\* the ids generate_item_id hands out, one per row
ItemIds == <<"itm_1", "itm_2", "itm_3", "itm_4", "itm_5">>
\* created_at of a new row: rows may tie, and arrive out of order
Stamps == {1, 2, 3}
Orders == {"asc", "desc"}

\* where sorted() puts `row` among rows already sorted: after the rows
\* that sort before it and after the rows of equal created_at (stable,
\* with reverse too)
RECURSIVE InsertSorted(_, _, _)
InsertSorted(sorted_rows, row, order) ==
  IF sorted_rows = <<>> THEN <<row>>
  ELSE LET first == sorted_rows[1]
           row_first == IF order = "desc" THEN row.created_at > first.created_at
                        ELSE row.created_at < first.created_at
       IN IF row_first THEN <<row>> \o sorted_rows
          ELSE <<first>> \o InsertSorted(Tail(sorted_rows), row, order)

\* sorted(rows, key=sort_key, reverse=order == "desc")
RECURSIVE Sorted(_, _)
Sorted(rows, order) ==
  IF rows = <<>> THEN <<>>
  ELSE InsertSorted(Sorted(SubSeq(rows, 1, Len(rows) - 1), order), rows[Len(rows)], order)

\* a has_more that is also true when the page ends with the last row
HasMoreAtEnd(start, limit, count) == start + limit <= count

\* has_more of _paginate
HasMore(start, limit, count) == start + limit < count

\* _paginate
_paginate(rows, after, limit, order) ==
  LET sorted_rows == Sorted(rows, order)
      hits == {i \in DOMAIN sorted_rows : sorted_rows[i].id = after}
      start == IF after # None /\ after # "" /\ hits # {}
               THEN CHOOSE i \in hits : \A j \in hits : i <= j
               ELSE 0
      data == SubSeq(sorted_rows, start + 1,
                     IF start + limit < Len(sorted_rows) THEN start + limit ELSE Len(sorted_rows))
      has_more == HasMore(start, limit, Len(sorted_rows))
  IN [data |-> data,
      has_more |-> has_more,
      after |-> IF has_more /\ data # <<>> THEN data[Len(data)].id ELSE None]

PagerFrame == UNCHANGED <<coreVars, tasks, selects, assets, facts, ad, metro>>

\* add_thread_item with a newly generated id, while no client is paging
AddThreadItem(created_at) ==
  /\ pager.pos # "paging"
  /\ Len(pager.rows) < MaxRows
  /\ pager' = [NoPager EXCEPT !.rows = Append(pager.rows,
                                 [id |-> ItemIds[Len(pager.rows) + 1], created_at |-> created_at])]
  /\ PagerFrame

\* load_thread_items(thread_id, after, limit, order) and the page the
\* client receives
LoadPage(after, limit, order) ==
  LET page == _paginate(pager.rows, after, limit, order) IN
    /\ pager' = [pager EXCEPT !.pos = IF page.has_more THEN "paging" ELSE "done",
                              !.limit = limit, !.order = order,
                              !.after = page.after, !.has_more = page.has_more,
                              !.data = page.data,
                              !.seen = IF after = None THEN page.data ELSE pager.seen \o page.data]
    /\ PagerFrame

\* the first page: no cursor
FirstPage(limit, order) ==
  /\ pager.pos # "paging"
  /\ LoadPage(None, limit, order)

\* the next page: the cursor of the page before, the same limit and order
NextPage ==
  /\ pager.pos = "paging"
  /\ LoadPage(pager.after, pager.limit, pager.order)

NextPager ==
  \/ \E created_at \in Stamps : AddThreadItem(created_at)
  \/ \E limit \in 1..MaxLimit, order \in Orders : FirstPage(limit, order)
  \/ NextPage

SpecPager == Init /\ [][NextPager]_vars

\* the rows in created_at order, ascending or descending
InCreatedOrder(rows, order) ==
  \A i, j \in DOMAIN rows :
    i < j => IF order = "desc" THEN rows[i].created_at >= rows[j].created_at
             ELSE rows[i].created_at <= rows[j].created_at
\* no row twice
NoRepeat(rows) == \A i, j \in DOMAIN rows : i # j => rows[i] # rows[j]

\* C29: the pages a client has received hold no row twice and are in
\* created_at order; the last page has has_more true exactly when rows
\* remain after it, is not empty unless the thread is, and holds at most
\* limit rows; paging ends with has_more false, every row seen exactly once
C29_PagingComplete ==
  pager.pos # "idle" =>
    /\ NoRepeat(pager.seen)
    /\ Range(pager.seen) \subseteq Range(pager.rows)
    /\ InCreatedOrder(pager.seen, pager.order)
    /\ Len(pager.data) <= pager.limit
    /\ pager.data = <<>> => pager.rows = <<>>
    /\ pager.has_more <=> Len(pager.seen) < Len(pager.rows)
    /\ pager.has_more <=> pager.pos = "paging"
    /\ pager.pos = "done" => Range(pager.seen) = Range(pager.rows) /\ Len(pager.seen) = Len(pager.rows)

\* three rows, the second older than the first and the third, read newest
\* first in pages of two: the second page is the last and holds one row
C29_Witness ==
  /\ pager.pos = "done"
  /\ pager.order = "desc"
  /\ pager.limit = 2
  /\ Len(pager.rows) = 3
  /\ pager.rows[2].created_at < pager.rows[1].created_at
  /\ pager.rows[3].created_at = pager.rows[1].created_at
  /\ Len(pager.data) = 1
  /\ Len(pager.seen) = 3
  /\ pager.seen[3] = pager.rows[2]

\* C30 (as claimed): _geocode_location asks the providers in their fixed
\* order; once one has answered with a location no later provider is asked;
\* after a provider has failed, whatever the failure, the next one is asked,
\* and geocoding fails only when every provider has been asked and has
\* failed, with a WeatherLookupError that is the error of the last one (for
\* the caller of get_weather, the ValueError made of it)
C30_ProvidersInOrder ==
  [][/\ weather.pc = "geocode" =>
          /\ weather'.called = Append(weather.called, Providers[Len(weather.called) + 1])
          /\ weather'.pc = "done" =>
               /\ weather'.called = Providers
               /\ weather'.raised = (IF weather.tool THEN "ValueError" ELSE "WeatherLookupError")
               /\ weather'.message = weather'.last_error
     /\ weather.pc = "forecast" => weather'.called = weather.called]_vars

============================================================================
